---- MODULE Spec2Model ----
(***************************************************************************)
(* Scavenger-hunt association services (UserService, TeamService,          *)
(* SessionService, ArtifactService) over a Firebase Realtime Database.     *)
(*                                                                         *)
(* The database is modelled as what it is: a finite map from leaf paths to *)
(* primitive values.  A node exists iff some leaf lies at or below it, so  *)
(* empty objects and null are not stored, and the empty string, false and  *)
(* 0 are.  Every service method is an operator from a database to a result *)
(* [err, db] built from the method's reads, checks and writes in source    *)
(* order; the action of the method applies it to the current database.     *)
(*                                                                         *)
(* Spec runs, one call at a time, the twenty methods that create, delete   *)
(* and associate entities.  The setters of scalar fields (names, e-mail,   *)
(* flags, times, coordinates, points, currentSession) write their own leaf *)
(* of an entity they found to exist and are not among its actions.         *)
(* BuildSpec is Spec without TeamService.addMember and removeMember.       *)
(*                                                                         *)
(* A method is also given await by await, as the request it sends to the   *)
(* database at each await.  RaceSpec interleaves the awaits of overlapping *)
(* addTeam calls; RejectSpec lets the database reject a write of           *)
(* assignUserToTeam.                                                       *)
(***************************************************************************)
EXTENDS Integers, Sequences, FiniteSets, TLC

\* ---------------------------------------------------------------- bounds
NumUsers == 1
NumSessions == 2
NumTeams == 2
NumArtifacts == 1
NumCalls == 2
MaxPoints == 1
MaxTime == 2

AllUsers == <<"u1", "u2", "u3">>
AllSessions == <<"s1", "s2", "s3">>
AllTeams == <<"t1", "t2", "t3">>
AllArtifacts == <<"a1", "a2">>

UserIds == {AllUsers[i] : i \in 1..NumUsers}
SessionIds == {AllSessions[i] : i \in 1..NumSessions}
TeamIds == {AllTeams[i] : i \in 1..NumTeams}
ArtifactIds == {AllArtifacts[i] : i \in 1..NumArtifacts}

\* The creator handed to createSession: an opaque id the services never read.
CreatorIds == {AllUsers[1]}

\* The instants handed to setTimes.
\* The strings given to the setters of names, addresses and URLs.
Texts == {"", "text"}
Points == 0..MaxPoints
Times == 0..MaxTime

\* The slots for calls that overlap in time.
CallIds == 1..NumCalls

\* The database: the set of its leaves [path, val]; and the method calls in
\* flight, each with the answers its awaits have had so far.
VARIABLES db, calls
vars == <<db, calls>>

\* ------------------------------------------------------- JavaScript values
\* A primitive carries its type; all three fields are always present so that
\* any two primitives are comparable.
Str(s) == [k |-> "string", s |-> s, n |-> 0]
Num(n) == [k |-> "number", s |-> "", n |-> n]
Bool(b) == [k |-> "boolean", s |-> "", n |-> IF b THEN 1 ELSE 0]

\* A value (snapshot.val(), an object literal, a primitive) is the set of its
\* leaves, each with its path relative to the value: a primitive is one leaf
\* with the empty path, null/undefined and {} are the empty set.
Leaf(p, v) == [path |-> p, val |-> v]
Prim(v) == {Leaf(<<>>, v)}
JsNull == {}
JsTrue == Prim(Bool(TRUE))
JsEmptyString == Prim(Str(""))

\* Object literal {k1: f[k1], ...} for a function f from keys to values.
Obj(f) == UNION {{Leaf(<<k>> \o l.path, l.val) : l \in f[k]} : k \in DOMAIN f}

\* JavaScript truthiness: null, undefined, '', 0 and false are falsy, every
\* object and every other primitive is truthy.
TruthyPrim(v) == IF v.k = "string" THEN v.s # "" ELSE v.n # 0
Truthy(v) == v # {} /\ \A l \in v : l.path = <<>> => TruthyPrim(l.val)

\* v[k]: the property k of a value (undefined when absent or v is primitive).
Prop(v, k) == {Leaf(Tail(l.path), l.val) : l \in {x \in v : x.path # <<>> /\ Head(x.path) = k}}

\* Object.keys(v)
Keys(v) == {Head(l.path) : l \in {x \in v : x.path # <<>>}}

\* Date.now(): the clock is abstracted to one instant.
DateNow == 1

\* ------------------------------------------------------------- BaseService
IsPrefix(p, q) == Len(p) <= Len(q) /\ SubSeq(q, 1, Len(p)) = p

\* get(ref(path)).val()
getData(d, path) == {Leaf(SubSeq(l.path, Len(path) + 1, Len(l.path)), l.val) : l \in {x \in d : IsPrefix(path, x.path)}}

\* get(ref(path)).exists()
exists(d, path) == getData(d, path) # JsNull

\* remove(ref(path))
removeData(d, path) == {l \in d : ~IsPrefix(path, l.path)}

\* set(ref(path), data): replaces the subtree at path (and any primitive that
\* sat at an ancestor of path) by the leaves of data.
setData(d, path, data) ==
  IF data = JsNull THEN removeData(d, path)
  ELSE {l \in d : ~IsPrefix(path, l.path) /\ ~IsPrefix(l.path, path)} \cup {Leaf(path \o l.path, l.val) : l \in data}

\* A method's outcome: the error it threw ("ok" when it returned) and the
\* database it leaves.
Ok(d) == [err |-> "ok", db |-> d]
Throw(d, msg) == [err |-> msg, db |-> d]

\* ------------------------------------------------------------- UserService
newUser ==
  Obj([username |-> Prim(Str("")), email |-> Prim(Str("")), sessionsJoined |-> Obj(<<>>),
       isAdmin |-> Prim(Bool(FALSE)), createdAt |-> Prim(Num(DateNow)), updatedAt |-> Prim(Num(DateNow))])

createUser(d, userId) ==
  IF exists(d, <<"users", userId>>) THEN Throw(d, "User already exists")
  ELSE Ok(setData(d, <<"users", userId>>, newUser))

getUser(d, userId) == getData(d, <<"users", userId>>)

\* user.sessionsJoined[sessionId] of a user snapshot (undefined when either
\* level is absent; the callers test sessionsJoined first where the code does).
joined(user, sessionId) == Prop(Prop(user, "sessionsJoined"), sessionId)

touch(d, userId) == setData(d, <<"users", userId, "updatedAt">>, Prim(Num(DateNow)))

\* addUserToSession without its "already part of this session" check.
addUserToSession_Twice(d, userId, sessionId) ==
  LET user == getUser(d, userId) IN
  IF ~Truthy(user) THEN Throw(d, "User not found")
  ELSE IF ~exists(d, <<"sessions", sessionId>>) THEN Throw(d, "Session does not exist")
  ELSE
    LET d1 == setData(d, <<"users", userId, "sessionsJoined", sessionId>>,
                      Obj([points |-> Prim(Num(0)), foundArtifacts |-> Obj(<<>>)]))
        d2 == setData(d1, <<"sessions", sessionId, "participants", userId>>, JsEmptyString)
    IN Ok(touch(d2, userId))

addUserToSession(d, userId, sessionId) ==
  LET user == getUser(d, userId) IN
  IF ~Truthy(user) THEN Throw(d, "User not found")
  ELSE IF ~exists(d, <<"sessions", sessionId>>) THEN Throw(d, "Session does not exist")
  ELSE IF Truthy(Prop(user, "sessionsJoined")) /\ Truthy(joined(user, sessionId))
    THEN Throw(d, "User is already part of this session")
  ELSE
    LET d1 == setData(d, <<"users", userId, "sessionsJoined", sessionId>>,
                      Obj([points |-> Prim(Num(0)), foundArtifacts |-> Obj(<<>>)]))
        d2 == setData(d1, <<"sessions", sessionId, "participants", userId>>, JsEmptyString)
    IN Ok(touch(d2, userId))

\* removeUserFromSession removing users/{userId}/sessionsJoined as a whole.
removeUserFromSession_AllSessions(d, userId, sessionId) ==
  LET user == getUser(d, userId) IN
  IF ~Truthy(user) THEN Throw(d, "User not found")
  ELSE IF ~Truthy(Prop(user, "sessionsJoined")) \/ ~Truthy(joined(user, sessionId))
    THEN Throw(d, "User is not part of this session")
  ELSE IF Truthy(joined(user, sessionId)) /\ Truthy(Prop(joined(user, sessionId), "teamId"))
    THEN Throw(d, "Remove user from team first before removing from session")
  ELSE
    LET d1 == removeData(d, <<"users", userId, "sessionsJoined">>)
        d2 == removeData(d1, <<"sessions", sessionId, "participants", userId>>)
        d3 == IF Prop(user, "currentSession") = Prim(Str(sessionId))
              THEN setData(d2, <<"users", userId, "currentSession">>, JsNull)
              ELSE d2
    IN Ok(touch(d3, userId))

\* removeUserFromSession without its removal of participants/{userId}.
removeUserFromSession_KeepParticipant(d, userId, sessionId) ==
  LET user == getUser(d, userId) IN
  IF ~Truthy(user) THEN Throw(d, "User not found")
  ELSE IF ~Truthy(Prop(user, "sessionsJoined")) \/ ~Truthy(joined(user, sessionId))
    THEN Throw(d, "User is not part of this session")
  ELSE IF Truthy(joined(user, sessionId)) /\ Truthy(Prop(joined(user, sessionId), "teamId"))
    THEN Throw(d, "Remove user from team first before removing from session")
  ELSE
    LET d1 == removeData(d, <<"users", userId, "sessionsJoined", sessionId>>)
        d3 == IF Prop(user, "currentSession") = Prim(Str(sessionId))
              THEN setData(d1, <<"users", userId, "currentSession">>, JsNull)
              ELSE d1
    IN Ok(touch(d3, userId))

removeUserFromSession(d, userId, sessionId) ==
  LET user == getUser(d, userId) IN
  IF ~Truthy(user) THEN Throw(d, "User not found")
  ELSE IF ~Truthy(Prop(user, "sessionsJoined")) \/ ~Truthy(joined(user, sessionId))
    THEN Throw(d, "User is not part of this session")
  ELSE IF Truthy(joined(user, sessionId)) /\ Truthy(Prop(joined(user, sessionId), "teamId"))
    THEN Throw(d, "Remove user from team first before removing from session")
  ELSE
    LET d1 == removeData(d, <<"users", userId, "sessionsJoined", sessionId>>)
        d2 == removeData(d1, <<"sessions", sessionId, "participants", userId>>)
        d3 == IF Prop(user, "currentSession") = Prim(Str(sessionId))
              THEN setData(d2, <<"users", userId, "currentSession">>, JsNull)
              ELSE d2
    IN Ok(touch(d3, userId))

\* The id held by a string-valued field (the caller has checked it truthy).
StrOf(v) == (CHOOSE l \in v : l.path = <<>>).val.s

\* assignUserToTeam without its removal from the user's current team.
assignUserToTeam_KeepPrevious(d, userId, sessionId, teamId) ==
  LET user == getUser(d, userId)
      team == getData(d, <<"teams", teamId>>)
  IN
  IF ~Truthy(user) THEN Throw(d, "User not found")
  ELSE IF ~Truthy(Prop(user, "sessionsJoined")) \/ ~Truthy(joined(user, sessionId))
    THEN Throw(d, "User is not part of this session")
  ELSE IF ~exists(d, <<"teams", teamId>>) THEN Throw(d, "Team does not exist")
  ELSE IF ~Truthy(team) THEN Throw(d, "Team not found")
  ELSE IF Prop(team, "sessionId") # Prim(Str(sessionId))
    THEN Throw(d, "Team does not belong to this session")
  ELSE
    LET d2 == setData(d, <<"users", userId, "sessionsJoined", sessionId, "teamId">>, Prim(Str(teamId)))
        d3 == setData(d2, <<"teams", teamId, "members", userId>>, JsTrue)
        d4 == setData(d3, <<"sessions", sessionId, "participants", userId>>, Prim(Str(teamId)))
    IN Ok(touch(d4, userId))

\* assignUserToTeam reading the team before it looks at the user's sessions.
assignUserToTeam_TeamFirst(d, userId, sessionId, teamId) ==
  LET user == getUser(d, userId)
      team == getData(d, <<"teams", teamId>>)
      currentTeamId == Prop(joined(user, sessionId), "teamId")
  IN
  IF ~Truthy(user) THEN Throw(d, "User not found")
  ELSE IF ~exists(d, <<"teams", teamId>>) THEN Throw(d, "Team does not exist")
  ELSE IF ~Truthy(team) THEN Throw(d, "Team not found")
  ELSE IF Prop(team, "sessionId") # Prim(Str(sessionId))
    THEN Throw(d, "Team does not belong to this session")
  ELSE IF ~Truthy(Prop(user, "sessionsJoined")) \/ ~Truthy(joined(user, sessionId))
    THEN Throw(d, "User is not part of this session")
  ELSE
    LET d1 == IF Truthy(currentTeamId)
              THEN removeData(d, <<"teams", StrOf(currentTeamId), "members", userId>>)
              ELSE d
        d2 == setData(d1, <<"users", userId, "sessionsJoined", sessionId, "teamId">>, Prim(Str(teamId)))
        d3 == setData(d2, <<"teams", teamId, "members", userId>>, JsTrue)
        d4 == setData(d3, <<"sessions", sessionId, "participants", userId>>, Prim(Str(teamId)))
    IN Ok(touch(d4, userId))

\* assignUserToTeam without its comparison of team.sessionId with the session.
assignUserToTeam_AnySession(d, userId, sessionId, teamId) ==
  LET user == getUser(d, userId)
      team == getData(d, <<"teams", teamId>>)
      currentTeamId == Prop(joined(user, sessionId), "teamId")
  IN
  IF ~Truthy(user) THEN Throw(d, "User not found")
  ELSE IF ~Truthy(Prop(user, "sessionsJoined")) \/ ~Truthy(joined(user, sessionId))
    THEN Throw(d, "User is not part of this session")
  ELSE IF ~exists(d, <<"teams", teamId>>) THEN Throw(d, "Team does not exist")
  ELSE IF ~Truthy(team) THEN Throw(d, "Team not found")
  ELSE
    LET d1 == IF Truthy(currentTeamId)
              THEN removeData(d, <<"teams", StrOf(currentTeamId), "members", userId>>)
              ELSE d
        d2 == setData(d1, <<"users", userId, "sessionsJoined", sessionId, "teamId">>, Prim(Str(teamId)))
        d3 == setData(d2, <<"teams", teamId, "members", userId>>, JsTrue)
        d4 == setData(d3, <<"sessions", sessionId, "participants", userId>>, Prim(Str(teamId)))
    IN Ok(touch(d4, userId))

assignUserToTeam(d, userId, sessionId, teamId) ==
  LET user == getUser(d, userId)
      team == getData(d, <<"teams", teamId>>)
      currentTeamId == Prop(joined(user, sessionId), "teamId")
  IN
  IF ~Truthy(user) THEN Throw(d, "User not found")
  ELSE IF ~Truthy(Prop(user, "sessionsJoined")) \/ ~Truthy(joined(user, sessionId))
    THEN Throw(d, "User is not part of this session")
  ELSE IF ~exists(d, <<"teams", teamId>>) THEN Throw(d, "Team does not exist")
  ELSE IF ~Truthy(team) THEN Throw(d, "Team not found")
  ELSE IF Prop(team, "sessionId") # Prim(Str(sessionId))
    THEN Throw(d, "Team does not belong to this session")
  ELSE
    LET d1 == IF Truthy(currentTeamId)
              THEN removeData(d, <<"teams", StrOf(currentTeamId), "members", userId>>)
              ELSE d
        d2 == setData(d1, <<"users", userId, "sessionsJoined", sessionId, "teamId">>, Prim(Str(teamId)))
        d3 == setData(d2, <<"teams", teamId, "members", userId>>, JsTrue)
        d4 == setData(d3, <<"sessions", sessionId, "participants", userId>>, Prim(Str(teamId)))
    IN Ok(touch(d4, userId))

\* removeUserFromTeam without its reset of participants[userId] to ''.
removeUserFromTeam_KeepParticipant(d, userId, sessionId) ==
  LET user == getUser(d, userId)
      sessionData == joined(user, sessionId)
      teamId == Prop(sessionData, "teamId")
  IN
  IF ~Truthy(user) THEN Throw(d, "User not found")
  ELSE IF ~Truthy(sessionData) THEN Throw(d, "User is not part of this session")
  ELSE IF ~Truthy(teamId) THEN Throw(d, "User is not part of any team in this session")
  ELSE
    LET d1 == removeData(d, <<"teams", StrOf(teamId), "members", userId>>)
        d2 == setData(d1, <<"users", userId, "sessionsJoined", sessionId, "teamId">>, JsNull)
    IN Ok(touch(d2, userId))

removeUserFromTeam(d, userId, sessionId) ==
  LET user == getUser(d, userId)
      sessionData == joined(user, sessionId)
      teamId == Prop(sessionData, "teamId")
  IN
  IF ~Truthy(user) THEN Throw(d, "User not found")
  ELSE IF ~Truthy(sessionData) THEN Throw(d, "User is not part of this session")
  ELSE IF ~Truthy(teamId) THEN Throw(d, "User is not part of any team in this session")
  ELSE
    LET d1 == removeData(d, <<"teams", StrOf(teamId), "members", userId>>)
        d2 == setData(d1, <<"users", userId, "sessionsJoined", sessionId, "teamId">>, JsNull)
        d3 == setData(d2, <<"sessions", sessionId, "participants", userId>>, JsEmptyString)
    IN Ok(touch(d3, userId))

\* addFoundArtifact without its "artifact is part of this session" check.
addFoundArtifact_AnyArtifact(d, userId, sessionId, artifactId) ==
  LET user == getUser(d, userId) IN
  IF ~Truthy(user) THEN Throw(d, "User not found")
  ELSE IF ~Truthy(Prop(user, "sessionsJoined")) \/ ~Truthy(joined(user, sessionId))
    THEN Throw(d, "User is not part of this session")
  ELSE
    Ok(touch(setData(d, <<"users", userId, "sessionsJoined", sessionId, "foundArtifacts", artifactId>>, JsTrue), userId))

addFoundArtifact(d, userId, sessionId, artifactId) ==
  LET user == getUser(d, userId) IN
  IF ~Truthy(user) THEN Throw(d, "User not found")
  ELSE IF ~Truthy(Prop(user, "sessionsJoined")) \/ ~Truthy(joined(user, sessionId))
    THEN Throw(d, "User is not part of this session")
  ELSE IF ~exists(d, <<"sessions", sessionId, "artifacts", artifactId>>)
    THEN Throw(d, "Artifact is not part of this session")
  ELSE
    Ok(touch(setData(d, <<"users", userId, "sessionsJoined", sessionId, "foundArtifacts", artifactId>>, JsTrue), userId))

removeFoundArtifact(d, userId, sessionId, artifactId) ==
  LET user == getUser(d, userId)
      sessionData == joined(user, sessionId)
  IN
  IF ~Truthy(user) THEN Throw(d, "User not found")
  ELSE IF ~Truthy(sessionData) THEN Throw(d, "User is not part of this session")
  ELSE IF ~Truthy(Prop(sessionData, "foundArtifacts")) \/ ~Truthy(Prop(Prop(sessionData, "foundArtifacts"), artifactId))
    THEN Throw(d, "Artifact is not in user's found artifacts")
  ELSE
    Ok(touch(removeData(d, <<"users", userId, "sessionsJoined", sessionId, "foundArtifacts", artifactId>>), userId))

\* The setters of a user's own fields.
setUsername(d, userId, username) ==
  IF ~Truthy(getUser(d, userId)) THEN Throw(d, "User not found")
  ELSE Ok(touch(setData(d, <<"users", userId, "username">>, Prim(Str(username))), userId))

setEmail(d, userId, email) ==
  IF ~Truthy(getUser(d, userId)) THEN Throw(d, "User not found")
  ELSE Ok(touch(setData(d, <<"users", userId, "email">>, Prim(Str(email))), userId))

setProfilePicture(d, userId, url) ==
  IF ~Truthy(getUser(d, userId)) THEN Throw(d, "User not found")
  ELSE Ok(touch(setData(d, <<"users", userId, "profilePictureUrl">>, Prim(Str(url))), userId))

setAdminStatus(d, userId, isAdmin) ==
  IF ~Truthy(getUser(d, userId)) THEN Throw(d, "User not found")
  ELSE Ok(touch(setData(d, <<"users", userId, "isAdmin">>, Prim(Bool(isAdmin))), userId))

\* setCurrentSession without its check of the user's sessionsJoined.
setCurrentSession_AnySession(d, userId, sessionId) ==
  LET user == getUser(d, userId) IN
  IF ~Truthy(user) THEN Throw(d, "User not found")
  ELSE Ok(touch(setData(d, <<"users", userId, "currentSession">>, sessionId), userId))

\* setCurrentSession, sessionId being null or a string.
setCurrentSession(d, userId, sessionId) ==
  LET user == getUser(d, userId) IN
  IF ~Truthy(user) THEN Throw(d, "User not found")
  ELSE IF Truthy(sessionId) /\
          (~Truthy(Prop(user, "sessionsJoined")) \/ ~Truthy(joined(user, StrOf(sessionId))))
    THEN Throw(d, "User is not part of this session")
  ELSE Ok(touch(setData(d, <<"users", userId, "currentSession">>, sessionId), userId))

updatePoints(d, userId, sessionId, points) ==
  LET user == getUser(d, userId) IN
  IF ~Truthy(user) THEN Throw(d, "User not found")
  ELSE IF ~Truthy(Prop(user, "sessionsJoined")) \/ ~Truthy(joined(user, sessionId))
    THEN Throw(d, "User is not part of this session")
  ELSE Ok(touch(setData(d, <<"users", userId, "sessionsJoined", sessionId, "points">>, Prim(Num(points))), userId))

deleteUser(d, userId) ==
  LET user == getUser(d, userId) IN
  IF ~Truthy(user) THEN Throw(d, "User not found")
  ELSE IF Truthy(Prop(user, "sessionsJoined")) /\ Cardinality(Keys(Prop(user, "sessionsJoined"))) > 0
    THEN Throw(d, "User still has session associations. Remove from all sessions first")
  ELSE Ok(removeData(d, <<"users", userId>>))

\* ------------------------------------------------------------- TeamService
newTeam == Obj([sessionId |-> Prim(Str("")), teamName |-> Prim(Str("")), members |-> Obj(<<>>)])

createTeam(d, teamId) ==
  IF exists(d, <<"teams", teamId>>) THEN Throw(d, "Team already exists")
  ELSE Ok(setData(d, <<"teams", teamId>>, newTeam))

getTeam(d, teamId) == getData(d, <<"teams", teamId>>)

setTeamName(d, teamId, name) ==
  IF ~Truthy(getTeam(d, teamId)) THEN Throw(d, "Team not found")
  ELSE Ok(setData(d, <<"teams", teamId, "teamName">>, Prim(Str(name))))

\* addMember writing the user's sessionsJoined[session].teamId as well.
addMember_WithTeamId(d, teamId, userId) ==
  LET team == getTeam(d, teamId)
      sid == StrOf(Prop(team, "sessionId"))
  IN
  IF ~Truthy(team) THEN Throw(d, "Team not found")
  ELSE IF ~Truthy(Prop(team, "sessionId"))
    THEN Throw(d, "Team must be assigned to a session before adding members")
  ELSE IF ~exists(d, <<"sessions", sid, "participants", userId>>)
    THEN Throw(d, "User must be part of the session before joining team")
  ELSE IF Truthy(Prop(team, "members")) /\ Truthy(Prop(Prop(team, "members"), userId))
    THEN Throw(d, "User is already a member of this team")
  ELSE
    LET d1 == setData(d, <<"teams", teamId, "members", userId>>, JsTrue)
        d2 == setData(d1, <<"sessions", sid, "participants", userId>>, Prim(Str(teamId)))
    IN Ok(setData(d2, <<"users", userId, "sessionsJoined", sid, "teamId">>, Prim(Str(teamId))))

\* addMember without its check that the user is a participant of the session.
addMember_NoParticipantCheck(d, teamId, userId) ==
  LET team == getTeam(d, teamId)
      sid == StrOf(Prop(team, "sessionId"))
  IN
  IF ~Truthy(team) THEN Throw(d, "Team not found")
  ELSE IF ~Truthy(Prop(team, "sessionId"))
    THEN Throw(d, "Team must be assigned to a session before adding members")
  ELSE IF Truthy(Prop(team, "members")) /\ Truthy(Prop(Prop(team, "members"), userId))
    THEN Throw(d, "User is already a member of this team")
  ELSE
    LET d1 == setData(d, <<"teams", teamId, "members", userId>>, JsTrue)
    IN Ok(setData(d1, <<"sessions", sid, "participants", userId>>, Prim(Str(teamId))))

addMember(d, teamId, userId) ==
  LET team == getTeam(d, teamId)
      sid == StrOf(Prop(team, "sessionId"))
  IN
  IF ~Truthy(team) THEN Throw(d, "Team not found")
  ELSE IF ~Truthy(Prop(team, "sessionId"))
    THEN Throw(d, "Team must be assigned to a session before adding members")
  ELSE IF ~exists(d, <<"sessions", sid, "participants", userId>>)
    THEN Throw(d, "User must be part of the session before joining team")
  ELSE IF Truthy(Prop(team, "members")) /\ Truthy(Prop(Prop(team, "members"), userId))
    THEN Throw(d, "User is already a member of this team")
  ELSE
    LET d1 == setData(d, <<"teams", teamId, "members", userId>>, JsTrue)
    IN Ok(setData(d1, <<"sessions", sid, "participants", userId>>, Prim(Str(teamId))))

removeMember(d, teamId, userId) ==
  LET team == getTeam(d, teamId) IN
  IF ~Truthy(team) THEN Throw(d, "Team not found")
  ELSE IF ~Truthy(Prop(team, "members")) \/ ~Truthy(Prop(Prop(team, "members"), userId))
    THEN Throw(d, "User is not a member of this team")
  ELSE
    LET d1 == removeData(d, <<"teams", teamId, "members", userId>>)
    IN Ok(IF Truthy(Prop(team, "sessionId"))
          THEN setData(d1, <<"sessions", StrOf(Prop(team, "sessionId")), "participants", userId>>, JsEmptyString)
          ELSE d1)

\* deleteTeam without its "remove team from session" check.
deleteTeam_Attached(d, teamId) ==
  LET team == getTeam(d, teamId) IN
  IF ~Truthy(team) THEN Throw(d, "Team not found")
  ELSE IF Truthy(Prop(team, "members")) /\ Cardinality(Keys(Prop(team, "members"))) > 0
    THEN Throw(d, "Remove all team members before deletion")
  ELSE Ok(removeData(d, <<"teams", teamId>>))

deleteTeam(d, teamId) ==
  LET team == getTeam(d, teamId) IN
  IF ~Truthy(team) THEN Throw(d, "Team not found")
  ELSE IF Truthy(Prop(team, "sessionId")) THEN Throw(d, "Remove team from session before deletion")
  ELSE IF Truthy(Prop(team, "members")) /\ Cardinality(Keys(Prop(team, "members"))) > 0
    THEN Throw(d, "Remove all team members before deletion")
  ELSE Ok(removeData(d, <<"teams", teamId>>))

\* ---------------------------------------------------------- SessionService
newSession(creatorId) ==
  Obj([sessionName |-> Prim(Str("")), creatorId |-> Prim(Str(creatorId)), startTime |-> Prim(Num(0)),
       endTime |-> Prim(Num(0)), isActive |-> Prim(Bool(FALSE)), teams |-> Obj(<<>>),
       participants |-> Obj(<<>>), artifacts |-> Obj(<<>>)])

createSession(d, sessionId, creatorId) ==
  IF exists(d, <<"sessions", sessionId>>) THEN Throw(d, "Session already exists")
  ELSE Ok(setData(d, <<"sessions", sessionId>>, newSession(creatorId)))

getSession(d, sessionId) == getData(d, <<"sessions", sessionId>>)

setSessionName(d, sessionId, name) ==
  IF ~Truthy(getSession(d, sessionId)) THEN Throw(d, "Session not found")
  ELSE Ok(setData(d, <<"sessions", sessionId, "sessionName">>, Prim(Str(name))))

setActiveStatus(d, sessionId, isActive) ==
  IF ~Truthy(getSession(d, sessionId)) THEN Throw(d, "Session not found")
  ELSE Ok(setData(d, <<"sessions", sessionId, "isActive">>, Prim(Bool(isActive))))

\* setTimes refusing only a start after the end.
setTimes_AllowEqual(d, sessionId, startTime, endTime) ==
  IF ~Truthy(getSession(d, sessionId)) THEN Throw(d, "Session not found")
  ELSE IF startTime > endTime THEN Throw(d, "Start time must be before end time")
  ELSE
    LET d1 == setData(d, <<"sessions", sessionId, "startTime">>, Prim(Num(startTime)))
    IN Ok(setData(d1, <<"sessions", sessionId, "endTime">>, Prim(Num(endTime))))

setTimes(d, sessionId, startTime, endTime) ==
  IF ~Truthy(getSession(d, sessionId)) THEN Throw(d, "Session not found")
  ELSE IF startTime >= endTime THEN Throw(d, "Start time must be before end time")
  ELSE
    LET d1 == setData(d, <<"sessions", sessionId, "startTime">>, Prim(Num(startTime)))
    IN Ok(setData(d1, <<"sessions", sessionId, "endTime">>, Prim(Num(endTime))))

\* addTeam without its "already part of another session" check.
addTeam_Reattach(d, sessionId, teamId) ==
  LET session == getSession(d, sessionId)
      team == getData(d, <<"teams", teamId>>)
  IN
  IF ~Truthy(session) THEN Throw(d, "Session not found")
  ELSE IF ~Truthy(team) THEN Throw(d, "Team not found")
  ELSE IF Truthy(Prop(team, "members")) /\ Cardinality(Keys(Prop(team, "members"))) > 0
    THEN Throw(d, "Team must be empty before adding to session")
  ELSE
    LET d1 == setData(d, <<"sessions", sessionId, "teams", teamId>>, JsTrue)
    IN Ok(setData(d1, <<"teams", teamId, "sessionId">>, Prim(Str(sessionId))))

addTeam(d, sessionId, teamId) ==
  LET session == getSession(d, sessionId)
      team == getData(d, <<"teams", teamId>>)
  IN
  IF ~Truthy(session) THEN Throw(d, "Session not found")
  ELSE IF ~Truthy(team) THEN Throw(d, "Team not found")
  ELSE IF Truthy(Prop(team, "sessionId")) THEN Throw(d, "Team is already part of another session")
  ELSE IF Truthy(Prop(team, "members")) /\ Cardinality(Keys(Prop(team, "members"))) > 0
    THEN Throw(d, "Team must be empty before adding to session")
  ELSE
    LET d1 == setData(d, <<"sessions", sessionId, "teams", teamId>>, JsTrue)
    IN Ok(setData(d1, <<"teams", teamId, "sessionId">>, Prim(Str(sessionId))))

\* removeTeam removing the team from the session's teams before it looks at
\* the team's members.
removeTeam_WriteFirst(d, sessionId, teamId) ==
  LET session == getSession(d, sessionId)
      team == getData(d, <<"teams", teamId>>)
      d1 == removeData(d, <<"sessions", sessionId, "teams", teamId>>)
  IN
  IF ~Truthy(session) THEN Throw(d, "Session not found")
  ELSE IF ~Truthy(Prop(session, "teams")) \/ ~Truthy(Prop(Prop(session, "teams"), teamId))
    THEN Throw(d, "Team is not part of this session")
  ELSE IF ~Truthy(team) THEN Throw(d1, "Team not found")
  ELSE IF Truthy(Prop(team, "members")) /\ Cardinality(Keys(Prop(team, "members"))) > 0
    THEN Throw(d1, "Team must be empty before removing from session")
  ELSE Ok(removeData(d1, <<"teams", teamId, "sessionId">>))

\* removeTeam without its "team must be empty" check.
removeTeam_WithMembers(d, sessionId, teamId) ==
  LET session == getSession(d, sessionId)
      team == getData(d, <<"teams", teamId>>)
  IN
  IF ~Truthy(session) THEN Throw(d, "Session not found")
  ELSE IF ~Truthy(Prop(session, "teams")) \/ ~Truthy(Prop(Prop(session, "teams"), teamId))
    THEN Throw(d, "Team is not part of this session")
  ELSE IF ~Truthy(team) THEN Throw(d, "Team not found")
  ELSE
    LET d1 == removeData(d, <<"sessions", sessionId, "teams", teamId>>)
    IN Ok(removeData(d1, <<"teams", teamId, "sessionId">>))

removeTeam(d, sessionId, teamId) ==
  LET session == getSession(d, sessionId)
      team == getData(d, <<"teams", teamId>>)
  IN
  IF ~Truthy(session) THEN Throw(d, "Session not found")
  ELSE IF ~Truthy(Prop(session, "teams")) \/ ~Truthy(Prop(Prop(session, "teams"), teamId))
    THEN Throw(d, "Team is not part of this session")
  ELSE IF ~Truthy(team) THEN Throw(d, "Team not found")
  ELSE IF Truthy(Prop(team, "members")) /\ Cardinality(Keys(Prop(team, "members"))) > 0
    THEN Throw(d, "Team must be empty before removing from session")
  ELSE
    LET d1 == removeData(d, <<"sessions", sessionId, "teams", teamId>>)
    IN Ok(removeData(d1, <<"teams", teamId, "sessionId">>))

addArtifact(d, sessionId, artifactId) ==
  IF ~Truthy(getSession(d, sessionId)) THEN Throw(d, "Session not found")
  ELSE IF ~exists(d, <<"artifacts", artifactId>>) THEN Throw(d, "Artifact not found")
  ELSE Ok(setData(d, <<"sessions", sessionId, "artifacts", artifactId>>, JsTrue))

\* The loop of removeArtifact over Object.keys(session.participants): it throws
\* at the first participant whose record holds the artifact, so it throws iff
\* some participant's does.
\* The scan reading users/{id}/foundArtifacts/{artifact}, a path that leaves
\* out sessionsJoined/{session} and so never holds anything.
foundByUsers_WrongPath(d, session, sessionId, artifactId) ==
  Truthy(Prop(session, "participants")) /\
  \E userId \in Keys(Prop(session, "participants")) :
    Truthy(getData(d, <<"users", userId, "foundArtifacts", artifactId>>))

foundByUsers(d, session, sessionId, artifactId) ==
  Truthy(Prop(session, "participants")) /\
  \E userId \in Keys(Prop(session, "participants")) :
    Truthy(getData(d, <<"users", userId, "sessionsJoined", sessionId, "foundArtifacts", artifactId>>))

removeArtifact(d, sessionId, artifactId) ==
  LET session == getSession(d, sessionId) IN
  IF ~Truthy(session) THEN Throw(d, "Session not found")
  ELSE IF ~Truthy(Prop(session, "artifacts")) \/ ~Truthy(Prop(Prop(session, "artifacts"), artifactId))
    THEN Throw(d, "Artifact is not part of this session")
  ELSE IF foundByUsers(d, session, sessionId, artifactId)
    THEN Throw(d, "Cannot remove artifact that has been found by users")
  ELSE Ok(removeData(d, <<"sessions", sessionId, "artifacts", artifactId>>))

\* deleteSession without its "active participants" check.
deleteSession_WithParticipants(d, sessionId) ==
  LET session == getSession(d, sessionId) IN
  IF ~Truthy(session) THEN Throw(d, "Session not found")
  ELSE IF Truthy(Prop(session, "teams")) /\ Cardinality(Keys(Prop(session, "teams"))) > 0
    THEN Throw(d, "Cannot delete session with associated teams")
  ELSE Ok(removeData(d, <<"sessions", sessionId>>))

\* deleteSession without its "associated teams" check.
deleteSession_WithTeams(d, sessionId) ==
  LET session == getSession(d, sessionId) IN
  IF ~Truthy(session) THEN Throw(d, "Session not found")
  ELSE IF Truthy(Prop(session, "participants")) /\ Cardinality(Keys(Prop(session, "participants"))) > 0
    THEN Throw(d, "Cannot delete session with active participants")
  ELSE Ok(removeData(d, <<"sessions", sessionId>>))

deleteSession(d, sessionId) ==
  LET session == getSession(d, sessionId) IN
  IF ~Truthy(session) THEN Throw(d, "Session not found")
  ELSE IF Truthy(Prop(session, "participants")) /\ Cardinality(Keys(Prop(session, "participants"))) > 0
    THEN Throw(d, "Cannot delete session with active participants")
  ELSE IF Truthy(Prop(session, "teams")) /\ Cardinality(Keys(Prop(session, "teams"))) > 0
    THEN Throw(d, "Cannot delete session with associated teams")
  ELSE Ok(removeData(d, <<"sessions", sessionId>>))

\* --------------------------------------------------------- ArtifactService
newArtifact ==
  Obj([name |-> Prim(Str("")), description |-> Prim(Str("")), locationHint |-> Prim(Str("")),
       latitude |-> Prim(Num(0)), longitude |-> Prim(Num(0)), isChallenge |-> Prim(Bool(FALSE))])

createArtifact(d, artifactId) ==
  IF exists(d, <<"artifacts", artifactId>>) THEN Throw(d, "Artifact already exists")
  ELSE Ok(setData(d, <<"artifacts", artifactId>>, newArtifact))

getArtifact(d, artifactId) == getData(d, <<"artifacts", artifactId>>)

\* The setters of an artifact's own fields: field is name, description,
\* locationHint, imageUrl or audioUrl.
setArtifactString(d, artifactId, field, value) ==
  IF ~Truthy(getArtifact(d, artifactId)) THEN Throw(d, "Artifact not found")
  ELSE Ok(setData(d, <<"artifacts", artifactId, field>>, Prim(Str(value))))

setName(d, artifactId, name) == setArtifactString(d, artifactId, "name", name)
setDescription(d, artifactId, description) == setArtifactString(d, artifactId, "description", description)
setLocationHint(d, artifactId, hint) == setArtifactString(d, artifactId, "locationHint", hint)
setImageUrl(d, artifactId, imageUrl) == setArtifactString(d, artifactId, "imageUrl", imageUrl)
setAudioUrl(d, artifactId, audioUrl) == setArtifactString(d, artifactId, "audioUrl", audioUrl)

setCoordinates(d, artifactId, latitude, longitude) ==
  IF ~Truthy(getArtifact(d, artifactId)) THEN Throw(d, "Artifact not found")
  ELSE LET d1 == setData(d, <<"artifacts", artifactId, "latitude">>, Prim(Num(latitude)))
       IN Ok(setData(d1, <<"artifacts", artifactId, "longitude">>, Prim(Num(longitude))))

setChallengeStatus(d, artifactId, isChallenge) ==
  IF ~Truthy(getArtifact(d, artifactId)) THEN Throw(d, "Artifact not found")
  ELSE Ok(setData(d, <<"artifacts", artifactId, "isChallenge">>, Prim(Bool(isChallenge))))

\* The loop of deleteArtifact over Object.keys(sessions), which Firebase
\* returns in key order; i is the position in that order.  Reading
\* sessions[sessionId].artifacts[artifactId] when the session has no artifacts
\* node indexes undefined, which throws a TypeError.
RECURSIVE scanSessions(_, _, _)
scanSessions(sessions, artifactId, i) ==
  IF i > Len(AllSessions) THEN "ok"
  ELSE IF AllSessions[i] \notin Keys(sessions) THEN scanSessions(sessions, artifactId, i + 1)
  ELSE LET artifacts == Prop(Prop(sessions, AllSessions[i]), "artifacts") IN
    IF artifacts = JsNull THEN "TypeError: Cannot read properties of undefined"
    ELSE IF Truthy(Prop(artifacts, artifactId)) THEN "Cannot delete artifact that is part of an active session"
    ELSE scanSessions(sessions, artifactId, i + 1)

\* deleteArtifact without its scan of the sessions.
deleteArtifact_NoScan(d, artifactId) ==
  IF ~Truthy(getArtifact(d, artifactId)) THEN Throw(d, "Artifact not found")
  ELSE Ok(removeData(d, <<"artifacts", artifactId>>))

deleteArtifact(d, artifactId) ==
  LET sessions == getData(d, <<"sessions">>)
      scan == IF Truthy(sessions) THEN scanSessions(sessions, artifactId, 1) ELSE "ok"
  IN
  IF ~Truthy(getArtifact(d, artifactId)) THEN Throw(d, "Artifact not found")
  ELSE IF scan # "ok" THEN Throw(d, scan)
  ELSE Ok(removeData(d, <<"artifacts", artifactId>>))

\* ------------------------------------------------- a method, await by await
\* A method gives the database one request at each await and runs on, without
\* interruption, from the answer to its next await, its return or its throw.
\* The requests of firebase/database that BaseService sends, and the two ways
\* a method ends:
get(path) == [kind |-> "get", path |-> path, data |-> JsNull, msg |-> ""]
set(path, data) == [kind |-> "set", path |-> path, data |-> data, msg |-> ""]
remove(path) == [kind |-> "remove", path |-> path, data |-> JsNull, msg |-> ""]
returns == [kind |-> "return", path |-> <<>>, data |-> JsNull, msg |-> "ok"]
throws(msg) == [kind |-> "throw", path |-> <<>>, data |-> JsNull, msg |-> msg]

\* What the database answers to a request, and the database the request leaves.
answer(d, req) == IF req.kind = "get" THEN getData(d, req.path) ELSE JsNull
apply(d, req) ==
  CASE req.kind = "set" -> setData(d, req.path, req.data)
    [] req.kind = "remove" -> removeData(d, req.path)
    [] OTHER -> d

\* addTeam without its write of sessions/{sessionId}/teams/{teamId}.
addTeamSteps_NoTeamsWrite(args, reads) ==
  LET sessionId == args[1]
      teamId == args[2]
      session == reads[1]
      team == reads[2]
  IN
  IF Len(reads) = 0 THEN get(<<"sessions", sessionId>>)
  ELSE IF ~Truthy(session) THEN throws("Session not found")
  ELSE IF Len(reads) = 1 THEN get(<<"teams", teamId>>)
  ELSE IF ~Truthy(team) THEN throws("Team not found")
  ELSE IF Truthy(Prop(team, "sessionId")) THEN throws("Team is already part of another session")
  ELSE IF Truthy(Prop(team, "members")) /\ Cardinality(Keys(Prop(team, "members"))) > 0
    THEN throws("Team must be empty before adding to session")
  ELSE IF Len(reads) = 2 THEN set(<<"teams", teamId, "sessionId">>, Prim(Str(sessionId)))
  ELSE returns

\* SessionService.addTeam: its next request, given its arguments and the
\* answers to the awaits it has passed (a write answers with nothing).
addTeamSteps(args, reads) ==
  LET sessionId == args[1]
      teamId == args[2]
      session == reads[1]
      team == reads[2]
  IN
  IF Len(reads) = 0 THEN get(<<"sessions", sessionId>>)
  ELSE IF ~Truthy(session) THEN throws("Session not found")
  ELSE IF Len(reads) = 1 THEN get(<<"teams", teamId>>)
  ELSE IF ~Truthy(team) THEN throws("Team not found")
  ELSE IF Truthy(Prop(team, "sessionId")) THEN throws("Team is already part of another session")
  ELSE IF Truthy(Prop(team, "members")) /\ Cardinality(Keys(Prop(team, "members"))) > 0
    THEN throws("Team must be empty before adding to session")
  ELSE IF Len(reads) = 2 THEN set(<<"sessions", sessionId, "teams", teamId>>, JsTrue)
  ELSE IF Len(reads) = 3 THEN set(<<"teams", teamId, "sessionId">>, Prim(Str(sessionId)))
  ELSE returns

\* UserService.assignUserToTeam, likewise: three reads, then its writes in
\* source order, the first of them only when the user has a team already.
assignUserToTeamSteps(args, reads) ==
  LET userId == args[1]
      sessionId == args[2]
      teamId == args[3]
      user == reads[1]
      teamExists == reads[2] # JsNull
      team == reads[3]
      currentTeamId == Prop(joined(user, sessionId), "teamId")
      writes ==
        (IF Truthy(currentTeamId)
         THEN <<remove(<<"teams", StrOf(currentTeamId), "members", userId>>)>>
         ELSE <<>>) \o
        << set(<<"users", userId, "sessionsJoined", sessionId, "teamId">>, Prim(Str(teamId))),
           set(<<"teams", teamId, "members", userId>>, JsTrue),
           set(<<"sessions", sessionId, "participants", userId>>, Prim(Str(teamId))),
           set(<<"users", userId, "updatedAt">>, Prim(Num(DateNow))) >>
  IN
  IF Len(reads) = 0 THEN get(<<"users", userId>>)
  ELSE IF ~Truthy(user) THEN throws("User not found")
  ELSE IF ~Truthy(Prop(user, "sessionsJoined")) \/ ~Truthy(joined(user, sessionId))
    THEN throws("User is not part of this session")
  ELSE IF Len(reads) = 1 THEN get(<<"teams", teamId>>)
  ELSE IF ~teamExists THEN throws("Team does not exist")
  ELSE IF Len(reads) = 2 THEN get(<<"teams", teamId>>)
  ELSE IF ~Truthy(team) THEN throws("Team not found")
  ELSE IF Prop(team, "sessionId") # Prim(Str(sessionId)) THEN throws("Team does not belong to this session")
  ELSE IF Len(reads) - 3 < Len(writes) THEN writes[Len(reads) - 2]
  ELSE returns

\* UserService.addUserToSession: two reads, then its three writes.
addUserToSessionSteps(args, reads) ==
  LET userId == args[1]
      sessionId == args[2]
      user == reads[1]
      sessionExists == reads[2] # JsNull
      writes ==
        << set(<<"users", userId, "sessionsJoined", sessionId>>,
               Obj([points |-> Prim(Num(0)), foundArtifacts |-> Obj(<<>>)])),
           set(<<"sessions", sessionId, "participants", userId>>, JsEmptyString),
           set(<<"users", userId, "updatedAt">>, Prim(Num(DateNow))) >>
  IN
  IF Len(reads) = 0 THEN get(<<"users", userId>>)
  ELSE IF ~Truthy(user) THEN throws("User not found")
  ELSE IF Len(reads) = 1 THEN get(<<"sessions", sessionId>>)
  ELSE IF ~sessionExists THEN throws("Session does not exist")
  ELSE IF Truthy(Prop(user, "sessionsJoined")) /\ Truthy(joined(user, sessionId))
    THEN throws("User is already part of this session")
  ELSE IF Len(reads) - 2 < Len(writes) THEN writes[Len(reads) - 1]
  ELSE returns

\* UserService.addFoundArtifact: two reads, then its two writes.
addFoundArtifactSteps(args, reads) ==
  LET userId == args[1]
      sessionId == args[2]
      artifactId == args[3]
      user == reads[1]
      sessionExists == reads[2] # JsNull
      writes ==
        << set(<<"users", userId, "sessionsJoined", sessionId, "foundArtifacts", artifactId>>, JsTrue),
           set(<<"users", userId, "updatedAt">>, Prim(Num(DateNow))) >>
  IN
  IF Len(reads) = 0 THEN get(<<"users", userId>>)
  ELSE IF ~Truthy(user) THEN throws("User not found")
  ELSE IF ~Truthy(Prop(user, "sessionsJoined")) \/ ~Truthy(joined(user, sessionId))
    THEN throws("User is not part of this session")
  ELSE IF Len(reads) = 1 THEN get(<<"sessions", sessionId, "artifacts", artifactId>>)
  ELSE IF ~sessionExists THEN throws("Artifact is not part of this session")
  ELSE IF Len(reads) - 2 < Len(writes) THEN writes[Len(reads) - 1]
  ELSE returns

\* Object.keys of a map of user ids, in the key order of the database.
userKeys(v) == SelectSeq(AllUsers, LAMBDA k : k \in Keys(v))

\* SessionService.removeArtifact: the session, then one read per participant
\* of the snapshot, in key order, then its write.
removeArtifactSteps(args, reads) ==
  LET sessionId == args[1]
      artifactId == args[2]
      session == reads[1]
      participants == IF Truthy(Prop(session, "participants"))
                      THEN userKeys(Prop(session, "participants")) ELSE <<>>
      looked == Len(reads) - 1
  IN
  IF Len(reads) = 0 THEN get(<<"sessions", sessionId>>)
  ELSE IF ~Truthy(session) THEN throws("Session not found")
  ELSE IF ~Truthy(Prop(session, "artifacts")) \/ ~Truthy(Prop(Prop(session, "artifacts"), artifactId))
    THEN throws("Artifact is not part of this session")
  ELSE IF \E i \in 1..looked : i <= Len(participants) /\ Truthy(reads[i + 1])
    THEN throws("Cannot remove artifact that has been found by users")
  ELSE IF looked < Len(participants)
    THEN get(<<"users", participants[looked + 1], "sessionsJoined", sessionId, "foundArtifacts", artifactId>>)
  ELSE IF looked = Len(participants) THEN remove(<<"sessions", sessionId, "artifacts", artifactId>>)
  ELSE returns

\* SessionService.deleteSession: one read, then its write.
deleteSessionSteps(args, reads) ==
  LET sessionId == args[1]
      session == reads[1]
  IN
  IF Len(reads) = 0 THEN get(<<"sessions", sessionId>>)
  ELSE IF ~Truthy(session) THEN throws("Session not found")
  ELSE IF Truthy(Prop(session, "participants")) /\ Cardinality(Keys(Prop(session, "participants"))) > 0
    THEN throws("Cannot delete session with active participants")
  ELSE IF Truthy(Prop(session, "teams")) /\ Cardinality(Keys(Prop(session, "teams"))) > 0
    THEN throws("Cannot delete session with associated teams")
  ELSE IF Len(reads) = 1 THEN remove(<<"sessions", sessionId>>)
  ELSE returns

steps(op, args, reads) ==
  CASE op = "addTeam" -> addTeamSteps(args, reads)
    [] op = "assignUserToTeam" -> assignUserToTeamSteps(args, reads)
    [] op = "addUserToSession" -> addUserToSessionSteps(args, reads)
    [] op = "addFoundArtifact" -> addFoundArtifactSteps(args, reads)
    [] op = "removeArtifact" -> removeArtifactSteps(args, reads)
    [] op = "deleteSession" -> deleteSessionSteps(args, reads)

\* A write the database rejects: set() or remove() rejects, the await throws
\* and no method catches it.  The call ends with the error and the database
\* stays as the writes before it left it (now), whatever the call found
\* (before).
WriteRejected == "write rejected"

\* The rejected call undoing what it had written.
rejected_RolledBack(before, now) == Throw(before, WriteRejected)

rejected(before, now) == Throw(now, WriteRejected)

\* A method run alone from the database d, the database rejecting the write
\* that comes after k accepted ones (none when k < 0).
RECURSIVE run(_, _, _, _, _, _)
run(before, d, op, args, reads, k) ==
  LET req == steps(op, args, reads) IN
  CASE req.kind = "return" -> Ok(d)
    [] req.kind = "throw" -> Throw(d, req.msg)
    [] req.kind = "get" -> run(before, d, op, args, Append(reads, answer(d, req)), k)
    [] OTHER -> IF k = 0 THEN rejected(before, d)
                ELSE run(before, apply(d, req), op, args, Append(reads, JsNull), k - 1)

\* A call in flight: the method, its arguments, the answers so far, and how it
\* ended once it has.
Idle == [op |-> "none", args |-> <<>>, reads |-> <<>>, pc |-> "idle", err |-> ""]
invoked(op, args) == [op |-> op, args |-> args, reads |-> <<>>, pc |-> "await", err |-> ""]

\* The call after the database has served its pending request from d: it runs
\* on to its next await, or ends.
resumed(c, d) ==
  LET reads == Append(c.reads, answer(d, steps(c.op, c.args, c.reads)))
      next == steps(c.op, c.args, reads)
  IN [c EXCEPT !.reads = reads,
               !.pc = IF next.kind \in {"return", "throw"} THEN "done" ELSE "await",
               !.err = IF next.kind \in {"return", "throw"} THEN next.msg ELSE ""]

\* ------------------------------------------------------------------ actions
\* One action per service method, for every choice of its arguments: the
\* method runs to completion on the current database and leaves the database
\* of its outcome (a call that throws is a step that leaves what the method
\* had written before the throw).  No call is in flight meanwhile.

CreateUser == \E u \in UserIds : db' = createUser(db, u).db /\ UNCHANGED calls
AddUserToSession == \E u \in UserIds, s \in SessionIds : db' = addUserToSession(db, u, s).db /\ UNCHANGED calls
RemoveUserFromSession == \E u \in UserIds, s \in SessionIds : db' = removeUserFromSession(db, u, s).db /\ UNCHANGED calls
AssignUserToTeam == \E u \in UserIds, s \in SessionIds, t \in TeamIds : db' = assignUserToTeam(db, u, s, t).db /\ UNCHANGED calls
RemoveUserFromTeam == \E u \in UserIds, s \in SessionIds : db' = removeUserFromTeam(db, u, s).db /\ UNCHANGED calls
AddFoundArtifact == \E u \in UserIds, s \in SessionIds, a \in ArtifactIds : db' = addFoundArtifact(db, u, s, a).db /\ UNCHANGED calls
RemoveFoundArtifact == \E u \in UserIds, s \in SessionIds, a \in ArtifactIds : db' = removeFoundArtifact(db, u, s, a).db /\ UNCHANGED calls
DeleteUser == \E u \in UserIds : db' = deleteUser(db, u).db /\ UNCHANGED calls

CreateTeam == \E t \in TeamIds : db' = createTeam(db, t).db /\ UNCHANGED calls
AddMember == \E t \in TeamIds, u \in UserIds : db' = addMember(db, t, u).db /\ UNCHANGED calls
RemoveMember == \E t \in TeamIds, u \in UserIds : db' = removeMember(db, t, u).db /\ UNCHANGED calls
DeleteTeam == \E t \in TeamIds : db' = deleteTeam(db, t).db /\ UNCHANGED calls

CreateSession == \E s \in SessionIds, c \in CreatorIds : db' = createSession(db, s, c).db /\ UNCHANGED calls
AddTeam == \E s \in SessionIds, t \in TeamIds : db' = addTeam(db, s, t).db /\ UNCHANGED calls
RemoveTeam == \E s \in SessionIds, t \in TeamIds : db' = removeTeam(db, s, t).db /\ UNCHANGED calls
AddArtifact == \E s \in SessionIds, a \in ArtifactIds : db' = addArtifact(db, s, a).db /\ UNCHANGED calls
RemoveArtifact == \E s \in SessionIds, a \in ArtifactIds : db' = removeArtifact(db, s, a).db /\ UNCHANGED calls
DeleteSession == \E s \in SessionIds : db' = deleteSession(db, s).db /\ UNCHANGED calls

CreateArtifact == \E a \in ArtifactIds : db' = createArtifact(db, a).db /\ UNCHANGED calls
DeleteArtifact == \E a \in ArtifactIds : db' = deleteArtifact(db, a).db /\ UNCHANGED calls

\* The database module is initialised empty, and nothing has been called.
Init == db = {} /\ calls = [c \in CallIds |-> Idle]

Next ==
  \/ CreateUser \/ AddUserToSession \/ RemoveUserFromSession \/ AssignUserToTeam
  \/ RemoveUserFromTeam \/ AddFoundArtifact \/ RemoveFoundArtifact \/ DeleteUser
  \/ CreateTeam \/ AddMember \/ RemoveMember \/ DeleteTeam
  \/ CreateSession \/ AddTeam \/ RemoveTeam \/ AddArtifact \/ RemoveArtifact \/ DeleteSession
  \/ CreateArtifact \/ DeleteArtifact

Spec == Init /\ [][Next]_vars

\* The same calls without TeamService.addMember and removeMember: associations
\* are built and undone through UserService and SessionService only.
BuildNext ==
  \/ CreateUser \/ AddUserToSession \/ RemoveUserFromSession \/ AssignUserToTeam
  \/ RemoveUserFromTeam \/ AddFoundArtifact \/ RemoveFoundArtifact \/ DeleteUser
  \/ CreateTeam \/ DeleteTeam
  \/ CreateSession \/ AddTeam \/ RemoveTeam \/ AddArtifact \/ RemoveArtifact \/ DeleteSession
  \/ CreateArtifact \/ DeleteArtifact

BuildSpec == Init /\ [][BuildNext]_vars

\* A user's memberships built, scored and undone: the UserService calls on a
\* membership record, among the calls that set up what they refer to.
UpdatePoints ==
  \E u \in UserIds, s \in SessionIds, points \in Points :
    db' = updatePoints(db, u, s, points).db /\ UNCHANGED calls

RejoinNext ==
  \/ CreateUser \/ CreateSession \/ CreateArtifact \/ AddArtifact \/ CreateTeam \/ AddTeam
  \/ AddUserToSession \/ RemoveUserFromSession \/ AssignUserToTeam \/ RemoveUserFromTeam
  \/ AddFoundArtifact \/ RemoveFoundArtifact \/ UpdatePoints

RejoinSpec == Init /\ [][RejoinNext]_vars

\* Calls that overlap: addTeam is invoked into a free slot and proceeds one
\* await at a time, each await served by the database as it is at that moment,
\* while other calls are at awaits of their own.
InvokeAddTeam ==
  \E c \in CallIds, s \in SessionIds, t \in TeamIds :
    /\ calls[c].pc = "idle"
    /\ calls' = [calls EXCEPT ![c] = invoked("addTeam", <<s, t>>)]
    /\ UNCHANGED db

Await ==
  \E c \in CallIds :
    /\ calls[c].pc = "await"
    /\ db' = apply(db, steps(calls[c].op, calls[c].args, calls[c].reads))
    /\ calls' = [calls EXCEPT ![c] = resumed(calls[c], db)]

RaceNext == CreateSession \/ CreateTeam \/ InvokeAddTeam \/ Await

RaceSpec == Init /\ [][RaceNext]_vars

\* A database that may reject a write: assignUserToTeam runs until the
\* database rejects one of its writes, after k of them were accepted (it has at
\* most five, so the call completes when k reaches their number).
AssignUserToTeamRejected ==
  \E u \in UserIds, s \in SessionIds, t \in TeamIds, k \in 0..4 :
    db' = run(db, db, "assignUserToTeam", <<u, s, t>>, <<>>, k).db /\ UNCHANGED calls

RejectNext ==
  \/ CreateUser \/ CreateSession \/ CreateTeam \/ AddTeam \/ AddUserToSession
  \/ AssignUserToTeam \/ RemoveUserFromTeam \/ AssignUserToTeamRejected

RejectSpec == Init /\ [][RejectNext]_vars

\* The calls on users, teams and sessions together with setCurrentSession,
\* called with null or a session id.
SetCurrentSession ==
  \E u \in UserIds, v \in {JsNull} \cup {Prim(Str(s)) : s \in SessionIds} :
    db' = setCurrentSession(db, u, v).db /\ UNCHANGED calls

CurrentNext ==
  \/ CreateUser \/ AddUserToSession \/ RemoveUserFromSession \/ AssignUserToTeam
  \/ RemoveUserFromTeam \/ DeleteUser \/ SetCurrentSession
  \/ CreateTeam \/ AddMember \/ RemoveMember \/ DeleteTeam
  \/ CreateSession \/ AddTeam \/ RemoveTeam \/ DeleteSession

CurrentSpec == Init /\ [][CurrentNext]_vars

\* The calls on sessions and their teams together with setTimes.
SetTimes ==
  \E s \in SessionIds, startTime \in Times, endTime \in Times :
    db' = setTimes(db, s, startTime, endTime).db /\ UNCHANGED calls

TimesNext == CreateSession \/ SetTimes \/ DeleteSession \/ CreateTeam \/ AddTeam \/ RemoveTeam

TimesSpec == Init /\ [][TimesNext]_vars

\* One client's assignUserToTeam calls, each awaited before the next is made
\* and proceeding one await at a time, while other clients set up users,
\* sessions and teams and see the database between the awaits.
InvokeAssignUserToTeam ==
  \E c \in CallIds, u \in UserIds, s \in SessionIds, t \in TeamIds :
    /\ calls[c].pc = "idle" /\ \A b \in CallIds : b < c => calls[b].pc = "done"
    /\ calls' = [calls EXCEPT ![c] = invoked("assignUserToTeam", <<u, s, t>>)]
    /\ UNCHANGED db

ReassignNext ==
  \/ CreateUser \/ CreateSession \/ CreateTeam \/ AddTeam \/ AddUserToSession
  \/ InvokeAssignUserToTeam \/ Await

ReassignSpec == Init /\ [][ReassignNext]_vars

\* Calls of different methods that overlap.  The database is built by calls
\* that run one at a time while nothing is in flight; then calls are made, each
\* into the first free slot, and proceed one await at a time.
Quiet == \A c \in CallIds : calls[c].pc = "idle"
free(c) == calls[c].pc = "idle" /\ \A b \in CallIds : b < c => calls[b].pc # "idle"

\* Two assignUserToTeam calls in flight at once.
SetUpTeams ==
  Quiet /\ (CreateUser \/ CreateSession \/ CreateTeam \/ AddTeam \/ AddUserToSession \/ AssignUserToTeam)

OverlapAssignUserToTeam ==
  \E c \in CallIds, u \in UserIds, s \in SessionIds, t \in TeamIds :
    /\ free(c)
    /\ calls' = [calls EXCEPT ![c] = invoked("assignUserToTeam", <<u, s, t>>)]
    /\ UNCHANGED db

AssignRaceNext == SetUpTeams \/ OverlapAssignUserToTeam \/ Await

AssignRaceSpec == Init /\ [][AssignRaceNext]_vars

\* addFoundArtifact and removeArtifact in flight at once.
SetUpArtifacts ==
  Quiet /\ (CreateUser \/ CreateSession \/ CreateArtifact \/ AddArtifact \/ AddUserToSession)

InvokeAddFoundArtifact ==
  \E c \in CallIds, u \in UserIds, s \in SessionIds, a \in ArtifactIds :
    /\ free(c)
    /\ calls' = [calls EXCEPT ![c] = invoked("addFoundArtifact", <<u, s, a>>)]
    /\ UNCHANGED db

InvokeRemoveArtifact ==
  \E c \in CallIds, s \in SessionIds, a \in ArtifactIds :
    /\ free(c)
    /\ calls' = [calls EXCEPT ![c] = invoked("removeArtifact", <<s, a>>)]
    /\ UNCHANGED db

FindRaceNext == SetUpArtifacts \/ InvokeAddFoundArtifact \/ InvokeRemoveArtifact \/ Await

FindRaceSpec == Init /\ [][FindRaceNext]_vars

\* deleteSession and addUserToSession in flight at once.
SetUpSessions == Quiet /\ (CreateUser \/ CreateSession)

InvokeAddUserToSession ==
  \E c \in CallIds, u \in UserIds, s \in SessionIds :
    /\ free(c)
    /\ calls' = [calls EXCEPT ![c] = invoked("addUserToSession", <<u, s>>)]
    /\ UNCHANGED db

InvokeDeleteSession ==
  \E c \in CallIds, s \in SessionIds :
    /\ free(c)
    /\ calls' = [calls EXCEPT ![c] = invoked("deleteSession", <<s>>)]
    /\ UNCHANGED db

JoinRaceNext == SetUpSessions \/ InvokeAddUserToSession \/ InvokeDeleteSession \/ Await

JoinRaceSpec == Init /\ [][JoinRaceNext]_vars

\* -------------------------------------------------- the schema's associations
\* The denormalised pointers of types/database.ts, read from a database d.
hasJoined(d, u, s) == exists(d, <<"users", u, "sessionsJoined", s>>)
teamIdOf(d, u, s) == getData(d, <<"users", u, "sessionsJoined", s, "teamId">>)
hasFound(d, u, s, a) == exists(d, <<"users", u, "sessionsJoined", s, "foundArtifacts", a>>)
participantOf(d, s, u) == getData(d, <<"sessions", s, "participants", u>>)
isParticipant(d, s, u) == exists(d, <<"sessions", s, "participants", u>>)
hasTeam(d, s, t) == exists(d, <<"sessions", s, "teams", t>>)
hasArtifact(d, s, a) == exists(d, <<"sessions", s, "artifacts", a>>)
sessionIdOf(d, t) == getData(d, <<"teams", t, "sessionId">>)
isMember(d, t, u) == exists(d, <<"teams", t, "members", u>>)
membersOf(d, t) == Keys(getData(d, <<"teams", t, "members">>))
Id(x) == Prim(Str(x))

\* ------------------------------------------------------------------- claims

\* C1: after every completed operation, a user has a sessionsJoined[s] record
\* if and only if Session(s).participants has an entry for that user.
C1_JoinedIffParticipant ==
  \A u \in UserIds, s \in SessionIds : hasJoined(db, u, s) <=> isParticipant(db, s, u)

\* C2: after every completed operation, sessionsJoined[s].teamId of u equals t
\* if and only if Team(t).members contains u and Session(s).participants[u]
\* equals t, whichever service made the association.
C2_TeamPointersAgree ==
  \A u \in UserIds, s \in SessionIds, t \in TeamIds :
    teamIdOf(db, u, s) = Id(t) <=> (isMember(db, t, u) /\ participantOf(db, s, u) = Id(t))

\* C3: after every completed operation, Team(t).sessionId equals s if and only
\* if Session(s).teams contains t, so no team is listed by two sessions at once.
C3_TeamSessionAgree ==
  /\ \A t \in TeamIds, s \in SessionIds : sessionIdOf(db, t) = Id(s) <=> hasTeam(db, s, t)
  /\ \A t \in TeamIds : Cardinality({s \in SessionIds : hasTeam(db, s, t)}) <= 1

\* C3 witness: a team that was added to one session while a second session
\* exists, after a member has been put on it.
C3_Witness ==
  \E t \in TeamIds, s1, s2 \in SessionIds, u \in UserIds :
    /\ s1 # s2 /\ hasTeam(db, s1, t) /\ sessionIdOf(db, t) = Id(s1)
    /\ exists(db, <<"sessions", s2>>) /\ isMember(db, t, u)

\* C4: no step changes the sessionId of a team whose members set is non-empty
\* before the step, and a team with a member always has a sessionId set.
C4_SessionIdFixedWhileMembers ==
  /\ [](\A t \in TeamIds : membersOf(db, t) # {} => Truthy(sessionIdOf(db, t)))
  /\ [][\A t \in TeamIds : membersOf(db, t) # {} => sessionIdOf(db', t) = sessionIdOf(db, t)]_vars

\* C4 witness: a team with a member, listed by its session, on which removeTeam
\* is refused because of the member.
C4_Witness ==
  \E t \in TeamIds, s \in SessionIds :
    /\ membersOf(db, t) # {} /\ hasTeam(db, s, t)
    /\ removeTeam(db, s, t) = Throw(db, "Team must be empty before removing from session")

\* C5: after every completed operation, an artifact recorded in a user's
\* foundArtifacts for session s is contained in Session(s).artifacts.
C5_FoundInSessionArtifacts ==
  \A u \in UserIds, s \in SessionIds, a \in ArtifactIds : hasFound(db, u, s, a) => hasArtifact(db, s, a)

\* C5 witness: a user holds a found record for an artifact of the session, and
\* removeArtifact on it is refused.
C5_Witness ==
  \E u \in UserIds, s \in SessionIds, a \in ArtifactIds :
    hasFound(db, u, s, a) /\ hasArtifact(db, s, a) /\ removeArtifact(db, s, a).err # "ok"

\* Some current participant of s has a recorded for s.
foundByParticipant(d, s, a) == \E u \in UserIds : isParticipant(d, s, u) /\ hasFound(d, u, s, a)

\* C6: for an artifact a of session s, removeArtifact(s, a) throws "found by
\* users" and changes nothing while some participant of s has a recorded, and
\* succeeds, taking a out of Session(s).artifacts, when none has.
C6_FoundArtifactRatchet ==
  \A s \in SessionIds, a \in ArtifactIds :
    hasArtifact(db, s, a) =>
      IF foundByParticipant(db, s, a)
      THEN removeArtifact(db, s, a) = Throw(db, "Cannot remove artifact that has been found by users")
      ELSE removeArtifact(db, s, a).err = "ok" /\ ~hasArtifact(removeArtifact(db, s, a).db, s, a)

\* C6 witness: a participant has the artifact recorded, the removal is refused,
\* and after removeFoundArtifact of that record the same removal succeeds.
C6_Witness ==
  \E u \in UserIds, s \in SessionIds, a \in ArtifactIds :
    /\ isParticipant(db, s, u) /\ hasFound(db, u, s, a) /\ hasArtifact(db, s, a)
    /\ removeArtifact(db, s, a).err = "Cannot remove artifact that has been found by users"
    /\ removeFoundArtifact(db, u, s, a).err = "ok"
    /\ removeArtifact(removeFoundArtifact(db, u, s, a).db, s, a).err = "ok"

\* C7: whenever u is a member of team A of session S, by whatever operation,
\* a successful assignUserToTeam(u, S, B) with B in S leaves u out of A's
\* members and in B's, with teamId and participants[u] both equal to B.
C7_ReassignmentIsMove ==
  \A u \in UserIds, s \in SessionIds, a \in TeamIds, b \in TeamIds :
    LET r == assignUserToTeam(db, u, s, b) IN
    (a # b /\ isMember(db, a, u) /\ sessionIdOf(db, a) = Id(s) /\ sessionIdOf(db, b) = Id(s) /\ r.err = "ok")
      => /\ ~isMember(r.db, a, u) /\ isMember(r.db, b, u)
         /\ teamIdOf(r.db, u, s) = Id(b) /\ participantOf(r.db, s, u) = Id(b)

\* C8: after every completed operation, at most one team of a session has a
\* given user among its members.
C8_OneTeamPerSession ==
  \A u \in UserIds, s \in SessionIds :
    Cardinality({t \in TeamIds : sessionIdOf(db, t) = Id(s) /\ isMember(db, t, u)}) <= 1

\* C9: deleteUser, deleteTeam and deleteSession throw and change nothing while
\* the entity still has associations (sessionsJoined; sessionId or members;
\* participants or teams).
C9_NonEmptyDeletionRejected ==
  /\ \A u \in UserIds :
       Keys(getData(db, <<"users", u, "sessionsJoined">>)) # {} =>
         deleteUser(db, u) = Throw(db, "User still has session associations. Remove from all sessions first")
  /\ \A t \in TeamIds :
       (Truthy(sessionIdOf(db, t)) \/ membersOf(db, t) # {}) =>
         /\ deleteTeam(db, t).err \in {"Remove team from session before deletion", "Remove all team members before deletion"}
         /\ deleteTeam(db, t).db = db
  /\ \A s \in SessionIds :
       (Keys(getData(db, <<"sessions", s, "participants">>)) # {} \/ Keys(getData(db, <<"sessions", s, "teams">>)) # {}) =>
         /\ deleteSession(db, s).err \in {"Cannot delete session with active participants", "Cannot delete session with associated teams"}
         /\ deleteSession(db, s).db = db

\* C9 witness: a user joined to a session and on a team of it, so that all
\* three deletions are refused, the session's for its team alone once the
\* participant is gone.
C9_Witness ==
  \E u \in UserIds, s \in SessionIds, t \in TeamIds :
    /\ hasJoined(db, u, s) /\ hasTeam(db, s, t) /\ isMember(db, t, u)
    /\ deleteUser(db, u).err # "ok" /\ deleteTeam(db, t).err # "ok" /\ deleteSession(db, s).err # "ok"

\* C10: deleteUser(u) fails while u is in some team's members or some
\* session's participants, so members and participants name existing users only.
C10_NoDeleteWhileReferenced ==
  \A u \in UserIds :
    ((\E t \in TeamIds : isMember(db, t, u)) \/ (\E s \in SessionIds : isParticipant(db, s, u)))
      => deleteUser(db, u).err # "ok" /\ exists(db, <<"users", u>>)

\* C11: a team is never reused across sessions: once a team has had its
\* sessionId set to s1, no later operation sets it to a different session s2,
\* not even after removeTeam has taken the team out of s1.  Stated on the
\* shortest such sequence: from any state in which the team belongs to s1,
\* removeTeam(s1, t) followed by addTeam(s2, t) does not leave sessionId = s2.
C11_TeamNeverReused ==
  \A t \in TeamIds, s1, s2 \in SessionIds :
    (s1 # s2 /\ sessionIdOf(db, t) = Id(s1) /\ removeTeam(db, s1, t).err = "ok")
      => sessionIdOf(addTeam(removeTeam(db, s1, t).db, s2, t).db, t) # Id(s2)

\* C12: once removeTeam(s1, t) has succeeded on a team without members,
\* addTeam(s2, t) succeeds for any other existing session s2, and each user
\* with an entry in the participants of s2 is then assigned to t by
\* assignUserToTeam(u, s2, t).
C12_RemovedTeamJoinsOtherSession ==
  \A t \in TeamIds, s1, s2 \in SessionIds :
    (s1 # s2 /\ exists(db, <<"sessions", s2>>) /\ removeTeam(db, s1, t).err = "ok") =>
      LET r == addTeam(removeTeam(db, s1, t).db, s2, t) IN
      /\ r.err = "ok" /\ hasTeam(r.db, s2, t) /\ sessionIdOf(r.db, t) = Id(s2)
      /\ \A u \in UserIds :
           isParticipant(db, s2, u) =>
             LET a == assignUserToTeam(r.db, u, s2, t) IN
             a.err = "ok" /\ isMember(a.db, t, u) /\ teamIdOf(a.db, u, s2) = Id(t)

\* C13: addMember(t, u) throws and writes nothing unless the team has a
\* sessionId and u has an entry in the participants of that session, and also
\* throws and writes nothing when u is already among the team's members.
C13_AddMemberPreconditions ==
  \A t \in TeamIds, u \in UserIds :
    LET sid == sessionIdOf(db, t)
        allowed == IF Truthy(sid) THEN isParticipant(db, StrOf(sid), u) /\ ~isMember(db, t, u) ELSE FALSE
    IN ~allowed => addMember(db, t, u).err # "ok" /\ addMember(db, t, u).db = db

\* C13 witness: a team of a session whose participants do not include the
\* user, on which addMember is refused for that reason.
C13_Witness ==
  \E t \in TeamIds, s \in SessionIds, u \in UserIds :
    /\ sessionIdOf(db, t) = Id(s) /\ exists(db, <<"users", u>>) /\ ~isParticipant(db, s, u)
    /\ addMember(db, t, u) = Throw(db, "User must be part of the session before joining team")

\* C14: assignUserToTeam(u, s, t) throws and writes nothing unless u has a
\* sessionsJoined[s] record, team t exists and its sessionId equals s; when
\* the user has joined and the team exists with any other sessionId (never
\* added to s, or belonging to another session) the error is "Team does not
\* belong to this session".
C14_AssignPreconditions ==
  \A u \in UserIds, s \in SessionIds, t \in TeamIds :
    LET r == assignUserToTeam(db, u, s, t) IN
    /\ (~hasJoined(db, u, s) \/ ~exists(db, <<"teams", t>>) \/ sessionIdOf(db, t) # Id(s))
         => r.err # "ok" /\ r.db = db
    /\ (hasJoined(db, u, s) /\ exists(db, <<"teams", t>>) /\ sessionIdOf(db, t) # Id(s))
         => r = Throw(db, "Team does not belong to this session")

\* C14 witness: a user who has joined s, and a team that belongs to another
\* session, so that the assignment is refused for the team's session.
C14_Witness ==
  \E u \in UserIds, s, s2 \in SessionIds, t \in TeamIds :
    /\ s # s2 /\ hasJoined(db, u, s) /\ sessionIdOf(db, t) = Id(s2)
    /\ assignUserToTeam(db, u, s, t) = Throw(db, "Team does not belong to this session")

\* C15: for a user who has joined s and is on no team, and a team of s without
\* members: after assignUserToTeam(u, s, t) the three sides agree (members =
\* {u}, participants[u] = t, teamId = t), and after removeUserFromTeam(u, s)
\* all three revert (no members, participants[u] = '', no teamId).
C15_AssignThenRemoveAgree ==
  \A u \in UserIds, s \in SessionIds, t \in TeamIds :
    ( /\ hasJoined(db, u, s) /\ teamIdOf(db, u, s) = JsNull /\ participantOf(db, s, u) = JsEmptyString
      /\ hasTeam(db, s, t) /\ sessionIdOf(db, t) = Id(s) /\ membersOf(db, t) = {} ) =>
      LET a == assignUserToTeam(db, u, s, t)
          r == removeUserFromTeam(a.db, u, s)
      IN /\ a.err = "ok" /\ membersOf(a.db, t) = {u}
         /\ participantOf(a.db, s, u) = Id(t) /\ teamIdOf(a.db, u, s) = Id(t)
         /\ r.err = "ok" /\ membersOf(r.db, t) = {}
         /\ participantOf(r.db, s, u) = JsEmptyString /\ teamIdOf(r.db, u, s) = JsNull

\* C15 witness: the state after the assignment, all three sides naming the
\* team, from which removeUserFromTeam succeeds.
C15_Witness ==
  \E u \in UserIds, s \in SessionIds, t \in TeamIds :
    /\ membersOf(db, t) = {u} /\ participantOf(db, s, u) = Id(t) /\ teamIdOf(db, u, s) = Id(t)
    /\ removeUserFromTeam(db, u, s).err = "ok"

\* C17: in any reachable state and for each entity type, creating an entity
\* under an id the store does not hold and deleting it at once succeeds and
\* gives back the database as it was.
C17_CreateDeleteRoundTrip ==
  /\ \A u \in UserIds :
       ~exists(db, <<"users", u>>) =>
         createUser(db, u).err = "ok" /\ deleteUser(createUser(db, u).db, u) = Ok(db)
  /\ \A t \in TeamIds :
       ~exists(db, <<"teams", t>>) =>
         createTeam(db, t).err = "ok" /\ deleteTeam(createTeam(db, t).db, t) = Ok(db)
  /\ \A s \in SessionIds, c \in CreatorIds :
       ~exists(db, <<"sessions", s>>) =>
         createSession(db, s, c).err = "ok" /\ deleteSession(createSession(db, s, c).db, s) = Ok(db)
  /\ \A a \in ArtifactIds :
       ~exists(db, <<"artifacts", a>>) =>
         createArtifact(db, a).err = "ok" /\ deleteArtifact(createArtifact(db, a).db, a) = Ok(db)

\* C18: deleteArtifact(a) throws and changes nothing whenever some existing
\* session's artifacts contain a, and every artifact id in a session's
\* artifacts is the id of an existing artifact.
C18_ReferencedArtifactKept ==
  /\ \A a \in ArtifactIds :
       (\E s \in SessionIds : hasArtifact(db, s, a)) =>
         deleteArtifact(db, a).err # "ok" /\ deleteArtifact(db, a).db = db
  /\ \A s \in SessionIds, a \in ArtifactIds : hasArtifact(db, s, a) => exists(db, <<"artifacts", a>>)

\* C18 witness: a session's artifacts contain the artifact and deleteArtifact
\* is refused because of it.
C18_Witness ==
  \E s \in SessionIds, a \in ArtifactIds :
    /\ hasArtifact(db, s, a)
    /\ deleteArtifact(db, a) = Throw(db, "Cannot delete artifact that is part of an active session")

\* The calls of a teardown, each a method with its arguments, and a sequence
\* of them run in order up to the first that throws.
call(op, args) == [op |-> op, args |-> args]

perform(d, c) ==
  CASE c.op = "removeFoundArtifact" -> removeFoundArtifact(d, c.args[1], c.args[2], c.args[3])
    [] c.op = "removeUserFromTeam" -> removeUserFromTeam(d, c.args[1], c.args[2])
    [] c.op = "removeUserFromSession" -> removeUserFromSession(d, c.args[1], c.args[2])
    [] c.op = "removeTeam" -> removeTeam(d, c.args[1], c.args[2])
    [] c.op = "removeArtifact" -> removeArtifact(d, c.args[1], c.args[2])
    [] c.op = "deleteSession" -> deleteSession(d, c.args[1])
    [] c.op = "deleteTeam" -> deleteTeam(d, c.args[1])
    [] c.op = "deleteUser" -> deleteUser(d, c.args[1])
    [] c.op = "deleteArtifact" -> deleteArtifact(d, c.args[1])

RECURSIVE performAll(_, _, _)
performAll(r, cs, i) ==
  IF i > Len(cs) \/ r.err # "ok" THEN r ELSE performAll(perform(r.db, cs[i]), cs, i + 1)

\* The members of a set of calls in some order.
RECURSIVE inOrder(_)
inOrder(S) == IF S = {} THEN <<>> ELSE LET c == CHOOSE x \in S : TRUE IN <<c>> \o inOrder(S \ {c})

\* The reverse-order teardown of runTest1 for whatever the database d holds:
\* unrecord the found artifacts, take the users off their teams and out of
\* their sessions, take teams and artifacts out of the sessions, then delete
\* sessions, teams, users and artifacts.
teardown(d) ==
  inOrder({call("removeFoundArtifact", <<u, s, a>>) :
             <<u, s, a>> \in {x \in UserIds \X SessionIds \X ArtifactIds : hasFound(d, x[1], x[2], x[3])}})
  \o inOrder({call("removeUserFromTeam", <<u, s>>) :
             <<u, s>> \in {x \in UserIds \X SessionIds : Truthy(teamIdOf(d, x[1], x[2]))}})
  \o inOrder({call("removeUserFromSession", <<u, s>>) :
             <<u, s>> \in {x \in UserIds \X SessionIds : hasJoined(d, x[1], x[2])}})
  \o inOrder({call("removeTeam", <<s, t>>) :
             <<s, t>> \in {x \in SessionIds \X TeamIds : hasTeam(d, x[1], x[2])}})
  \o inOrder({call("removeArtifact", <<s, a>>) :
             <<s, a>> \in {x \in SessionIds \X ArtifactIds : hasArtifact(d, x[1], x[2])}})
  \o inOrder({call("deleteSession", <<s>>) : s \in {x \in SessionIds : exists(d, <<"sessions", x>>)}})
  \o inOrder({call("deleteTeam", <<t>>) : t \in {x \in TeamIds : exists(d, <<"teams", x>>)}})
  \o inOrder({call("deleteUser", <<u>>) : u \in {x \in UserIds : exists(d, <<"users", x>>)}})
  \o inOrder({call("deleteArtifact", <<a>>) : a \in {x \in ArtifactIds : exists(d, <<"artifacts", x>>)}})

\* C16: whatever associations UserService and SessionService calls have built,
\* the teardown in reverse order runs without an error at any step and leaves
\* no user, team, session or artifact in the store.
C16_TeardownSucceeds == performAll(Ok(db), teardown(db), 1) = Ok({})

\* C16 witness: the associations of runTest1 all in place (artifact and team
\* in the session, the user joined, on the team, with the artifact found), and
\* their teardown runs through and empties the store.
C16_Witness ==
  \E u \in UserIds, s \in SessionIds, t \in TeamIds, a \in ArtifactIds :
    /\ hasArtifact(db, s, a) /\ hasTeam(db, s, t) /\ hasJoined(db, u, s)
    /\ teamIdOf(db, u, s) = Id(t) /\ isMember(db, t, u) /\ hasFound(db, u, s, a)
    /\ Len(teardown(db)) >= 9
    /\ performAll(Ok(db), teardown(db), 1) = Ok({})

\* The call in slot c is addTeam(s, t) and has returned without an error.
addedTeam(c, s, t) ==
  calls[c].op = "addTeam" /\ calls[c].args = <<s, t>> /\ calls[c].pc = "done" /\ calls[c].err = "ok"

\* C19: two addTeam calls for the same team and two different sessions whose
\* awaits interleave can both pass their checks and both return; whenever both
\* have returned, the team is listed in the teams of both sessions while its
\* sessionId names a single one, the session of one of the calls.
C19_AddTeamRace ==
  \A c1, c2 \in CallIds, t \in TeamIds, s1, s2 \in SessionIds :
    (c1 # c2 /\ s1 # s2 /\ addedTeam(c1, s1, t) /\ addedTeam(c2, s2, t)) =>
      /\ hasTeam(db, s1, t) /\ hasTeam(db, s2, t)
      /\ sessionIdOf(db, t) \in {Id(s) : s \in {x \in SessionIds : \E c \in CallIds : addedTeam(c, x, t)}}

\* C19 witness: both calls have returned without an error, the team is in the
\* teams of both sessions, and its sessionId names the second only.
C19_Witness ==
  \E c1, c2 \in CallIds, t \in TeamIds, s1, s2 \in SessionIds :
    /\ c1 # c2 /\ s1 # s2 /\ addedTeam(c1, s1, t) /\ addedTeam(c2, s2, t)
    /\ hasTeam(db, s1, t) /\ hasTeam(db, s2, t)
    /\ sessionIdOf(db, t) = Id(s2) /\ sessionIdOf(db, t) # Id(s1)

\* C20: when the database rejects a write of assignUserToTeam after it has
\* accepted k >= 1 of them, the call ends with that error, the k writes stay
\* in the database and no later write of the call, and no write undoing the
\* accepted ones, is made.  The writes are, in order: the removal from the
\* user's current team (only when there is one), teamId, members,
\* participants, updatedAt.
C20_NoRollback ==
  \A u \in UserIds, s \in SessionIds, t \in TeamIds, k \in 1..4 :
    LET old == teamIdOf(db, u, s)
        n0 == IF Truthy(old) THEN 1 ELSE 0
        r == run(db, db, "assignUserToTeam", <<u, s, t>>, <<>>, k)
    IN (assignUserToTeam(db, u, s, t).err = "ok" /\ k < 4 + n0) =>
         /\ r.err = WriteRejected
         /\ teamIdOf(r.db, u, s) = IF k >= n0 + 1 THEN Id(t) ELSE old
         /\ isMember(r.db, t, u) <=> (IF k >= n0 + 2 THEN TRUE ELSE isMember(db, t, u) /\ old # Id(t))
         /\ participantOf(r.db, s, u) = IF k >= n0 + 3 THEN Id(t) ELSE participantOf(db, s, u)
         /\ (Truthy(old) /\ old # Id(t)) => ~isMember(r.db, StrOf(old), u)

\* C20 witness: the state the rejected call leaves when only its teamId write
\* was accepted: the user's record names the team, while the team's members
\* and the session's participants entry are as they were.
C20_Witness ==
  \E u \in UserIds, s \in SessionIds, t \in TeamIds :
    /\ teamIdOf(db, u, s) = Id(t) /\ sessionIdOf(db, t) = Id(s)
    /\ ~isMember(db, t, u) /\ participantOf(db, s, u) = JsEmptyString

\* C22: removeUserFromSession(u, s) throws and changes nothing when u has no
\* sessionsJoined[s] record or the record's teamId is set, and so it never
\* succeeds while u is among the members of a team of session s.
C22_LeaveSessionAfterTeam ==
  \A u \in UserIds, s \in SessionIds :
    LET r == removeUserFromSession(db, u, s) IN
    /\ (~hasJoined(db, u, s) \/ Truthy(teamIdOf(db, u, s))) => r.err # "ok" /\ r.db = db
    /\ (\E t \in TeamIds : sessionIdOf(db, t) = Id(s) /\ isMember(db, t, u)) => r.err # "ok"

\* C24: assignUserToTeam(u, s, t) throws "User is already part of a team in
\* this session" and changes nothing when u already has a team in session s.
C24_SecondTeamRejected ==
  \A u \in UserIds, s \in SessionIds, t \in TeamIds :
    (hasJoined(db, u, s) /\ Truthy(teamIdOf(db, u, s)) /\ sessionIdOf(db, t) = Id(s)) =>
      assignUserToTeam(db, u, s, t) = Throw(db, "User is already part of a team in this session")

\* The session a team belongs to, as addMember reads it.
sessionOf(d, t) == StrOf(sessionIdOf(d, t))

\* C27: a successful addMember(t, u) sets Team(t).members[u] to true and
\* participants[u] of the team's session to t, and every other leaf of the
\* database, the user's sessionsJoined record and the members of the other
\* teams among them, is as it was.
C27_AddMemberWritesTwoFields ==
  \A t \in TeamIds, u \in UserIds :
    LET r == addMember(db, t, u)
        written == {<<"teams", t, "members", u>>, <<"sessions", sessionOf(db, t), "participants", u>>}
    IN r.err = "ok" =>
         /\ getData(r.db, <<"teams", t, "members", u>>) = JsTrue
         /\ participantOf(r.db, sessionOf(db, t), u) = Id(t)
         /\ {l \in r.db : l.path \notin written} = {l \in db : l.path \notin written}
         /\ getData(r.db, <<"users", u>>) = getData(db, <<"users", u>>)
         /\ \A t2 \in TeamIds \ {t} : membersOf(r.db, t2) = membersOf(db, t2)

\* C27 witness: the state a successful addMember leaves for a user who has
\* joined the session: member of the team, participants naming the team, and
\* the user's record without a teamId.
C27_Witness ==
  \E t \in TeamIds, s \in SessionIds, u \in UserIds :
    /\ sessionIdOf(db, t) = Id(s) /\ isMember(db, t, u) /\ participantOf(db, s, u) = Id(t)
    /\ hasJoined(db, u, s) /\ teamIdOf(db, u, s) = JsNull

\* C28: deleteArtifact(a) on an existing artifact succeeds and removes it
\* whenever no existing session's artifacts contain a, also when some session
\* has no artifacts at all.
C28_UnreferencedArtifactDeleted ==
  \A a \in ArtifactIds :
    (exists(db, <<"artifacts", a>>) /\ \A s \in SessionIds : ~hasArtifact(db, s, a)) =>
      deleteArtifact(db, a).err = "ok" /\ ~exists(deleteArtifact(db, a).db, <<"artifacts", a>>)

\* C29: deleteSession(s) on an existing session succeeds if and only if its
\* participants and its teams are both empty, whatever its artifacts; after it
\* has succeeded, an artifact that only s contained can be deleted.
C29_DeleteSessionIffEmpty ==
  \A s \in SessionIds :
    LET r == deleteSession(db, s)
        empty == /\ Keys(getData(db, <<"sessions", s, "participants">>)) = {}
                 /\ Keys(getData(db, <<"sessions", s, "teams">>)) = {}
    IN exists(db, <<"sessions", s>>) =>
         /\ r.err = "ok" <=> empty
         /\ r.err = "ok" =>
              \A a \in ArtifactIds :
                (hasArtifact(db, s, a) /\ \A s2 \in SessionIds \ {s} : ~hasArtifact(db, s2, a))
                  => deleteArtifact(r.db, a).err = "ok"

\* C30: when user u exists without a sessionsJoined[s] record,
\* assignUserToTeam(u, s, t) throws "User is not part of this session" and
\* changes nothing, whether team t is absent, unattached or attached to s.
C30_MembershipCheckedFirst ==
  \A u \in UserIds, s \in SessionIds, t \in TeamIds :
    (exists(db, <<"users", u>>) /\ ~hasJoined(db, u, s)) =>
      assignUserToTeam(db, u, s, t) = Throw(db, "User is not part of this session")

\* C30 witness: a user outside session s, one team attached to s and the other
\* absent, and the assignment to either refused for the missing membership.
C30_Witness ==
  \E u \in UserIds, s \in SessionIds, t1, t2 \in TeamIds :
    /\ exists(db, <<"users", u>>) /\ ~hasJoined(db, u, s)
    /\ sessionIdOf(db, t1) = Id(s) /\ ~exists(db, <<"teams", t2>>)
    /\ assignUserToTeam(db, u, s, t1).err = "User is not part of this session"
    /\ assignUserToTeam(db, u, s, t2).err = "User is not part of this session"

\* Between the databases d and e, the user's record for every session other
\* than s, and every session other than s, are the same.
sameElsewhere(d, e, u, s) ==
  \A s2 \in SessionIds \ {s} :
    /\ getData(e, <<"users", u, "sessionsJoined", s2>>) = getData(d, <<"users", u, "sessionsJoined", s2>>)
    /\ getData(e, <<"sessions", s2>>) = getData(d, <<"sessions", s2>>)

currentSessionOf(d, u) == getData(d, <<"users", u, "currentSession">>)

NumOf(v) == (CHOOSE l \in v : l.path = <<>>).val.n
startTimeOf(d, s) == NumOf(getData(d, <<"sessions", s, "startTime">>))
endTimeOf(d, s) == NumOf(getData(d, <<"sessions", s, "endTime">>))

\* C25: setTimes(s, start, end) throws and writes nothing when start >= end,
\* and after every completed operation every session has startTime = endTime
\* = 0 or startTime < endTime.
C25_StartBeforeEnd ==
  /\ \A s \in SessionIds, startTime \in Times, endTime \in Times :
       startTime >= endTime =>
         setTimes(db, s, startTime, endTime).err # "ok" /\ setTimes(db, s, startTime, endTime).db = db
  /\ \A s \in SessionIds :
       exists(db, <<"sessions", s>>) =>
         \/ startTimeOf(db, s) = 0 /\ endTimeOf(db, s) = 0
         \/ startTimeOf(db, s) < endTimeOf(db, s)

\* C25 witness: a session whose times were set, on which setTimes with a start
\* equal to the end, and with one after it, is refused.
C25_Witness ==
  \E s \in SessionIds :
    /\ exists(db, <<"sessions", s>>) /\ 0 < startTimeOf(db, s) /\ startTimeOf(db, s) < endTimeOf(db, s)
    /\ setTimes(db, s, endTimeOf(db, s), startTimeOf(db, s)) = Throw(db, "Start time must be before end time")
    /\ setTimes(db, s, startTimeOf(db, s), startTimeOf(db, s)) = Throw(db, "Start time must be before end time")

\* The call in slot c is assignUserToTeam(u, s, b), has passed its checks and
\* found the user on team a of the session: a reassignment from a to b, under
\* way or finished.
reassigning(c, u, s, a, b) ==
  /\ calls[c].op = "assignUserToTeam" /\ calls[c].args = <<u, s, b>>
  /\ Len(calls[c].reads) >= 3 /\ calls[c].err \in {"", "ok"}
  /\ Prop(joined(calls[c].reads[1], s), "teamId") = Id(a)

\* C26: a reassignment of u from team A to team B is atomic: in no state
\* that a read interleaved with it, or the caller receiving its outcome, can
\* see is u in neither or in both of A's and B's members, or does
\* sessionsJoined[S].teamId name a team u is not a member of.
C26_ReassignmentAtomic ==
  \A c \in CallIds, u \in UserIds, s \in SessionIds, a, b \in TeamIds :
    (a # b /\ reassigning(c, u, s, a, b)) =>
      /\ isMember(db, a, u) # isMember(db, b, u)
      /\ \A t \in {a, b} : teamIdOf(db, u, s) = Id(t) => isMember(db, t, u)

\* The membership record addUserToSession writes: points 0, nothing found, no
\* team.
freshRecord == Obj([points |-> Prim(Num(0)), foundArtifacts |-> Obj(<<>>)])

\* C31: after removeUserFromSession(u, s) has succeeded, addUserToSession(u, s)
\* succeeds and the new record is fresh (points 0, no foundArtifacts, no
\* teamId, participants[u] the empty string) whatever the earlier record held;
\* addUserToSession on a user who is a member already throws, unchanged.
C31_RejoinFresh ==
  \A u \in UserIds, s \in SessionIds :
    LET left == removeUserFromSession(db, u, s)
        back == addUserToSession(left.db, u, s)
    IN /\ left.err = "ok" =>
            /\ back.err = "ok"
            /\ getData(back.db, <<"users", u, "sessionsJoined", s>>) = freshRecord
            /\ teamIdOf(back.db, u, s) = JsNull /\ ~(\E a \in ArtifactIds : hasFound(back.db, u, s, a))
            /\ participantOf(back.db, s, u) = JsEmptyString
       /\ hasJoined(db, u, s) =>
            addUserToSession(db, u, s) = Throw(db, "User is already part of this session")

pointsOf(d, u, s) == getData(d, <<"users", u, "sessionsJoined", s, "points">>)

\* C31 witness: a member with points and a found artifact who can leave, and
\* whose record after leaving and joining again is the fresh one.
C31_Witness ==
  \E u \in UserIds, s \in SessionIds, a \in ArtifactIds :
    /\ hasJoined(db, u, s) /\ pointsOf(db, u, s) = Prim(Num(1)) /\ hasFound(db, u, s, a)
    /\ removeUserFromSession(db, u, s).err = "ok"
    /\ addUserToSession(removeUserFromSession(db, u, s).db, u, s).err = "ok"
    /\ pointsOf(addUserToSession(removeUserFromSession(db, u, s).db, u, s).db, u, s) = Prim(Num(0))

\* C33: with addMember and removeMember never called, the three team pointers
\* agree in every state: sessionsJoined[s].teamId = t iff u is a member of t
\* and t is a team of s iff participants[u] of s = t; and u has a
\* sessionsJoined[s] record iff participants of s has an entry for u.
C33_PointersAgreeWithoutTeamService ==
  \A u \in UserIds, s \in SessionIds :
    /\ hasJoined(db, u, s) <=> isParticipant(db, s, u)
    /\ \A t \in TeamIds :
         /\ teamIdOf(db, u, s) = Id(t) <=> (isMember(db, t, u) /\ sessionIdOf(db, t) = Id(s))
         /\ teamIdOf(db, u, s) = Id(t) <=> participantOf(db, s, u) = Id(t)

\* C33 witness: a user moved from one team of the session to the other, with
\* all three pointers on the second team and none on the first.
C33_Witness ==
  \E u \in UserIds, s \in SessionIds, t1, t2 \in TeamIds :
    /\ t1 # t2 /\ sessionIdOf(db, t1) = Id(s) /\ sessionIdOf(db, t2) = Id(s)
    /\ teamIdOf(db, u, s) = Id(t2) /\ isMember(db, t2, u) /\ participantOf(db, s, u) = Id(t2)
    /\ ~isMember(db, t1, u)

\* C34: in every state, a user with a sessionsJoined[s] record has session s
\* existing and an entry in its participants.
C34_JoinedSessionExists ==
  \A u \in UserIds, s \in SessionIds :
    hasJoined(db, u, s) => exists(db, <<"sessions", s>>) /\ isParticipant(db, s, u)

\* C34 witness: a member of a session that has no teams, which deleteSession
\* refuses to delete for its participants.
C34_Witness ==
  \E u \in UserIds, s \in SessionIds :
    /\ hasJoined(db, u, s) /\ isParticipant(db, s, u)
    /\ \A t \in TeamIds : ~hasTeam(db, s, t)
    /\ deleteSession(db, s) = Throw(db, "Cannot delete session with active participants")

\* C35: in every state, every id in a session's teams is an existing team and
\* every team's sessionId, when set, is an existing session.
C35_NoDanglingTeamSession ==
  \A t \in TeamIds :
    /\ \A s \in SessionIds : hasTeam(db, s, t) => exists(db, <<"teams", t>>)
    /\ Truthy(sessionIdOf(db, t)) =>
         \E s \in SessionIds : sessionIdOf(db, t) = Id(s) /\ exists(db, <<"sessions", s>>)

\* C35 witness: a team without members attached to a session without
\* participants, where deleteTeam and deleteSession are both refused.
C35_Witness ==
  \E s \in SessionIds, t \in TeamIds :
    /\ hasTeam(db, s, t) /\ sessionIdOf(db, t) = Id(s) /\ membersOf(db, t) = {}
    /\ \A u \in UserIds : ~isParticipant(db, s, u)
    /\ deleteTeam(db, t) = Throw(db, "Remove team from session before deletion")
    /\ deleteSession(db, s) = Throw(db, "Cannot delete session with associated teams")

\* The call with outcome r on the database d has returned, or has thrown and
\* left d as it was.
writesNothing(d, r) == r.err # "ok" => r.db = d

\* C32: a call of any of the four services that throws has written nothing:
\* for every method and every choice of its arguments, the database after a
\* throw is the database before the call.
C32_ChecksBeforeWrites ==
  /\ \A u \in UserIds : writesNothing(db, createUser(db, u))
  /\ \A u \in UserIds, x \in Texts : writesNothing(db, setUsername(db, u, x))
  /\ \A u \in UserIds, x \in Texts : writesNothing(db, setEmail(db, u, x))
  /\ \A u \in UserIds, x \in Texts : writesNothing(db, setProfilePicture(db, u, x))
  /\ \A u \in UserIds, v \in {JsNull} \cup {Id(s) : s \in SessionIds} : writesNothing(db, setCurrentSession(db, u, v))
  /\ \A u \in UserIds, b \in BOOLEAN : writesNothing(db, setAdminStatus(db, u, b))
  /\ \A u \in UserIds, s \in SessionIds : writesNothing(db, addUserToSession(db, u, s))
  /\ \A u \in UserIds, s \in SessionIds : writesNothing(db, removeUserFromSession(db, u, s))
  /\ \A u \in UserIds, s \in SessionIds, t \in TeamIds : writesNothing(db, assignUserToTeam(db, u, s, t))
  /\ \A u \in UserIds, s \in SessionIds, t \in TeamIds : writesNothing(db, run(db, db, "assignUserToTeam", <<u, s, t>>, <<>>, -1))
  /\ \A u \in UserIds, s \in SessionIds : writesNothing(db, removeUserFromTeam(db, u, s))
  /\ \A u \in UserIds, s \in SessionIds, a \in ArtifactIds : writesNothing(db, addFoundArtifact(db, u, s, a))
  /\ \A u \in UserIds, s \in SessionIds, a \in ArtifactIds : writesNothing(db, removeFoundArtifact(db, u, s, a))
  /\ \A u \in UserIds, s \in SessionIds, p \in Points : writesNothing(db, updatePoints(db, u, s, p))
  /\ \A u \in UserIds : writesNothing(db, deleteUser(db, u))
  /\ \A t \in TeamIds : writesNothing(db, createTeam(db, t))
  /\ \A t \in TeamIds, x \in Texts : writesNothing(db, setTeamName(db, t, x))
  /\ \A t \in TeamIds, u \in UserIds : writesNothing(db, addMember(db, t, u))
  /\ \A t \in TeamIds, u \in UserIds : writesNothing(db, removeMember(db, t, u))
  /\ \A t \in TeamIds : writesNothing(db, deleteTeam(db, t))
  /\ \A s \in SessionIds, c \in CreatorIds : writesNothing(db, createSession(db, s, c))
  /\ \A s \in SessionIds, x \in Texts : writesNothing(db, setSessionName(db, s, x))
  /\ \A s \in SessionIds, a \in Times, b \in Times : writesNothing(db, setTimes(db, s, a, b))
  /\ \A s \in SessionIds, b \in BOOLEAN : writesNothing(db, setActiveStatus(db, s, b))
  /\ \A s \in SessionIds, t \in TeamIds : writesNothing(db, addTeam(db, s, t))
  /\ \A s \in SessionIds, t \in TeamIds : writesNothing(db, run(db, db, "addTeam", <<s, t>>, <<>>, -1))
  /\ \A s \in SessionIds, t \in TeamIds : writesNothing(db, removeTeam(db, s, t))
  /\ \A s \in SessionIds, a \in ArtifactIds : writesNothing(db, addArtifact(db, s, a))
  /\ \A s \in SessionIds, a \in ArtifactIds : writesNothing(db, removeArtifact(db, s, a))
  /\ \A s \in SessionIds : writesNothing(db, deleteSession(db, s))
  /\ \A a \in ArtifactIds : writesNothing(db, createArtifact(db, a))
  /\ \A a \in ArtifactIds, x \in Texts : writesNothing(db, setName(db, a, x))
  /\ \A a \in ArtifactIds, x \in Texts : writesNothing(db, setDescription(db, a, x))
  /\ \A a \in ArtifactIds, x \in Texts : writesNothing(db, setLocationHint(db, a, x))
  /\ \A a \in ArtifactIds, x \in 0..1, y \in 0..1 : writesNothing(db, setCoordinates(db, a, x, y))
  /\ \A a \in ArtifactIds, x \in Texts : writesNothing(db, setImageUrl(db, a, x))
  /\ \A a \in ArtifactIds, x \in Texts : writesNothing(db, setAudioUrl(db, a, x))
  /\ \A a \in ArtifactIds, b \in BOOLEAN : writesNothing(db, setChallengeStatus(db, a, b))
  /\ \A a \in ArtifactIds : writesNothing(db, deleteArtifact(db, a))

\* C32 witness: a team with a member in a session, where removeTeam,
\* deleteTeam, deleteSession, removeUserFromSession and an addTeam to the other
\* session each pass their first checks and throw on a later one.
C32_Witness ==
  \E u \in UserIds, s, s2 \in SessionIds, t \in TeamIds :
    /\ s # s2 /\ exists(db, <<"sessions", s2>>)
    /\ hasTeam(db, s, t) /\ isMember(db, t, u) /\ teamIdOf(db, u, s) = Id(t)
    /\ removeTeam(db, s, t).err = "Team must be empty before removing from session"
    /\ deleteTeam(db, t).err = "Remove team from session before deletion"
    /\ deleteSession(db, s).err = "Cannot delete session with active participants"
    /\ removeUserFromSession(db, u, s).err = "Remove user from team first before removing from session"
    /\ addTeam(db, s2, t).err = "Team is already part of another session"

\* The call in slot c is op(args) and has returned without an error.
returned(c, op, args) ==
  calls[c].op = op /\ calls[c].args = args /\ calls[c].pc = "done" /\ calls[c].err = "ok"

\* The call in slot c is op(args) and has ended, returning or throwing.
completed(c, op, args) == calls[c].op = op /\ calls[c].args = args /\ calls[c].pc = "done"

\* C36: when two overlapping calls assignUserToTeam(u, s, t1) and
\* assignUserToTeam(u, s, t2), t1 # t2, have both returned, u is a member of
\* exactly one of t1 and t2, and that team is the one sessionsJoined[s].teamId
\* and participants[u] of s name.
C36_AssignRaceOneTeam ==
  \A c1, c2 \in CallIds, u \in UserIds, s \in SessionIds, t1, t2 \in TeamIds :
    (c1 # c2 /\ t1 # t2 /\ returned(c1, "assignUserToTeam", <<u, s, t1>>)
       /\ returned(c2, "assignUserToTeam", <<u, s, t2>>)) =>
      /\ isMember(db, t1, u) # isMember(db, t2, u)
      /\ \A t \in {t1, t2} :
           isMember(db, t, u) => teamIdOf(db, u, s) = Id(t) /\ participantOf(db, s, u) = Id(t)

\* C37: when overlapping calls addFoundArtifact(u, s, a) and
\* removeArtifact(s, a) have both completed, u does not have a among its found
\* artifacts of s while the artifacts of s no longer contain a.
C37_FoundArtifactInSession ==
  \A c1, c2 \in CallIds, u \in UserIds, s \in SessionIds, a \in ArtifactIds :
    (completed(c1, "addFoundArtifact", <<u, s, a>>) /\ completed(c2, "removeArtifact", <<s, a>>)) =>
      ~(hasFound(db, u, s, a) /\ ~hasArtifact(db, s, a))

\* C38: when overlapping calls deleteSession(s) and addUserToSession(u, s) have
\* both completed, either session s exists with u among its participants and
\* u holding sessionsJoined[s], or nothing is stored under sessions/s and u
\* holds no sessionsJoined[s].
C38_DeleteJoinRace ==
  \A c1, c2 \in CallIds, u \in UserIds, s \in SessionIds :
    (completed(c1, "deleteSession", <<s>>) /\ completed(c2, "addUserToSession", <<u, s>>)) =>
      \/ exists(db, <<"sessions", s, "creatorId">>) /\ isParticipant(db, s, u) /\ hasJoined(db, u, s)
      \/ ~exists(db, <<"sessions", s>>) /\ ~hasJoined(db, u, s)

====
